---- MODULE Spec2Model ----
(***************************************************************************)
(* providerkit: provider loading (get_providers), the readiness checkers   *)
(* of ProviderBase and the two invokers try_providers (try-all) and        *)
(* try_providers_first (try-first).                                        *)
(*                                                                         *)
(* Python values are modelled as follows.  A str that the code inspects    *)
(* character by character (lower(), substring search) is a sequence of     *)
(* one-character strings; an opaque str is a TLA+ string.  A dict is a     *)
(* sequence of <<key, value>> pairs in insertion order.  An optional       *)
(* attribute (hasattr) is a sequence of length 0 (absent) or 1 (set).      *)
(* f-strings are tuples of their parts, ", ".join(xs) is the sequence xs.  *)
(***************************************************************************)
EXTENDS Integers, Sequences, FiniteSets, TLC

VARIABLES
    providers,                 \* the collection being iterated: dict key -> provider
    installed,                 \* environment: names importlib.util.find_spec resolves
    environ,                   \* environment: os.environ as a dict name -> value
    fs,                        \* environment: files, directories and packages on disk
    args,                      \* the arguments of the call in progress
    pc,                        \* position of the call: "idle", "loop", "done"
    idx,                       \* number of providers.items() already iterated
    results,                   \* local results of the invoker: dict key -> entry
    providers_without_method,  \* local list of the invoker
    calls,                     \* dict key -> number of times the provider's method ran
    outcome                    \* how the call ended: returned value or raised error

vars == <<providers, installed, environ, fs, args, pc, idx, results,
          providers_without_method, calls, outcome>>

----------------------------------------------------------------------------
(* Bounds of the model *)

MaxProviders == 3

\* collections of at most this many providers draw them from every profile
FullProfileLen == 2

\* longest declarative config list handed to load_providers_from_config
MaxRecords == 3

\* most *.py files below a scanned directory
MaxFiles == 2

----------------------------------------------------------------------------
(* Python built-ins *)

Absent == <<>>

Some(v) == <<v>>

IsSet(opt) == Len(opt) = 1

Range(s) == {s[i] : i \in DOMAIN s}

\* dict: sequence of <<key, value>> pairs with pairwise distinct keys
DictKeys(d) == [i \in DOMAIN d |-> d[i][1]]

DictValues(d) == [i \in DOMAIN d |-> d[i][2]]

DictHas(d, k) == \E i \in DOMAIN d : d[i][1] = k

DictGet(d, k) == d[CHOOSE i \in DOMAIN d : d[i][1] = k][2]

\* d[k] = v : an existing key keeps its position, a new key is appended
DictSet(d, k, v) ==
    IF DictHas(d, k)
    THEN [i \in DOMAIN d |-> IF d[i][1] = k THEN <<k, v>> ELSE d[i]]
    ELSE Append(d, <<k, v>>)

RECURSIVE DictUpdate(_, _)
\* the mapping is replaced by the update
DictUpdate_replacing(d, e) == e

\* d.update(e)
DictUpdate(d, e) ==
    IF e = <<>> THEN d
    ELSE DictUpdate(DictSet(d, e[1][1], e[1][2]), Tail(e))

\* all(xs) over a sequence of booleans
All(bs) == \A i \in DOMAIN bs : bs[i]

\* str.lower() and str.upper() on the alphabet the model uses
LowerChar(c) ==
    CASE c = "A" -> "a"
      [] c = "B" -> "b"
      [] c = "K" -> "k"
      [] c = "T" -> "t"
      [] c = "F" -> "f"
      [] OTHER -> c

UpperChar(c) ==
    CASE c = "a" -> "A"
      [] c = "b" -> "B"
      [] c = "k" -> "K"
      [] c = "t" -> "T"
      [] c = "f" -> "F"
      [] OTHER -> c

Lower(s) == [i \in DOMAIN s |-> LowerChar(s[i])]

Upper(s) == [i \in DOMAIN s |-> UpperChar(s[i])]

\* str.replace(old, new) for a one-character old
ReplaceChar(s, old, new) == [i \in DOMAIN s |-> IF s[i] = old THEN new ELSE s[i]]

\* needle in haystack
Contains(haystack, needle) ==
    \E i \in 0..(Len(haystack) - Len(needle)) :
        \A j \in 1..Len(needle) : haystack[i + j] = needle[j]

\* Python values that may be None: None, a str (sequence of characters), a bool
PyNone == <<"None">>

PyStr(s) == <<"str", s>>

PyBool(b) == <<"bool", b>>

IsNone(v) == v[1] = "None"

IsBool(v) == v[1] = "bool"

\* truthiness of a value: None, "" and False are falsy
Truthy(v) ==
    CASE v[1] = "None" -> FALSE
      [] v[1] = "str" -> v[2] # <<>>
      [] v[1] = "bool" -> v[2]
      [] OTHER -> TRUE

\* str(v) of a str or a bool
str_of(v) ==
    IF v[1] = "bool"
    THEN IF v[2] THEN <<"T", "r", "u", "e">> ELSE <<"F", "a", "l", "s", "e">>
    ELSE v[2]

\* {k: F(k) for k in keys} : a repeated key keeps its first position
RECURSIVE DictComprehension(_, _, _)
DictComprehension(keys, F(_), acc) ==
    IF keys = <<>> THEN acc
    ELSE DictComprehension(Tail(keys), F, DictSet(acc, keys[1], F(keys[1])))

----------------------------------------------------------------------------
(* PackageMixin, src/providerkit/kit/package.py *)

get_required_packages(p) == p.required_packages

\* find_spec(normalized) then find_spec(name); every import error gives False
is_package_installed(package_name) ==
    LET normalized_name == ReplaceChar(ReplaceChar(package_name, "-", "_"), ".", "_")
    IN  normalized_name \in installed \/ package_name \in installed

\* the status is computed on every call
check_packages_uncached(p) ==
    DictComprehension(get_required_packages(p), is_package_installed, <<>>)

\* the mapping check_packages() returns
check_packages(p) ==
    IF IsSet(p.packages_cache) THEN p.packages_cache[1]
    ELSE DictComprehension(get_required_packages(p), is_package_installed, <<>>)

\* the provider after check_packages(): the status is stored in _packages_cache
after_check_packages(p) == [p EXCEPT !.packages_cache = Some(check_packages(p))]

clear_packages_cache(p) == [p EXCEPT !.packages_cache = Absent]

are_packages_installed(p) == All(DictValues(check_packages(p)))

\* no package is ever listed
get_missing_packages_none(p) == <<>>

get_missing_packages(p) ==
    DictKeys(SelectSeq(check_packages(p), LAMBDA kv : ~kv[2]))

----------------------------------------------------------------------------
(* ConfigMixin, src/providerkit/kit/config.py *)

\* getattr(self, "_config", {})
stored_config(p) == IF IsSet(p.config) THEN p.config[1] ELSE <<>>

\* dict.get(key) : None when the key is absent
config_get(d, key) == IF DictHas(d, key) THEN DictGet(d, key) ELSE PyNone

\* os.getenv(name)
getenv(name) == IF DictHas(environ, name) THEN PyStr(DictGet(environ, name)) ELSE PyNone

\* every key of config is kept
_filter_config_unfiltered(p, config) == config

_filter_config(p, config) ==
    IF p.config_keys = <<>> THEN config
    ELSE LET present == SelectSeq(p.config_keys, LAMBDA key : DictHas(config, key))
         IN  DictComprehension(present, LAMBDA key : DictGet(config, key), <<>>)

\* the three caches are emptied together
clear_config_cache_all(p) ==
    [p EXCEPT !.config_keys_cache = Absent, !.packages_cache = Absent, !.services_cache = Absent]

clear_config_cache(p) == [p EXCEPT !.config_keys_cache = Absent]

\* config is None or a dict given as Some(dict)
_init_config(p, config) ==
    LET q == IF IsSet(p.config) THEN p ELSE [p EXCEPT !.config = Some(<<>>)]
    IN  IF IsSet(config)
        THEN clear_config_cache([q EXCEPT !.config = Some(_filter_config(q, config[1]))])
        ELSE q

\* the bare variable is read before the name-scoped ones
_get_config_or_env_bare_first(p, key, default) ==
    LET value == config_get(stored_config(p), key)
        provider_name == ReplaceChar(Upper(p.name), "-", "_")
        key_upper == Upper(key)
        env_key_with_prefix == p.config_prefix \o <<"_">> \o provider_name \o <<"_">> \o key_upper
        env_key_provider == provider_name \o <<"_">> \o key_upper
    IN  IF ~IsNone(value) THEN value
        ELSE IF ~IsNone(getenv(key_upper)) THEN getenv(key_upper)
        ELSE IF p.config_prefix # <<>> /\ ~IsNone(getenv(env_key_with_prefix))
             THEN getenv(env_key_with_prefix)
        ELSE IF ~IsNone(getenv(env_key_provider)) THEN getenv(env_key_provider)
        ELSE default

_get_config_or_env(p, key, default) ==
    LET value == config_get(stored_config(p), key)
        provider_name == ReplaceChar(Upper(p.name), "-", "_")
        key_upper == Upper(key)
        env_key_with_prefix == p.config_prefix \o <<"_">> \o provider_name \o <<"_">> \o key_upper
        env_key_provider == provider_name \o <<"_">> \o key_upper
    IN  IF ~IsNone(value) THEN value
        ELSE IF p.config_prefix # <<>> /\ ~IsNone(getenv(env_key_with_prefix))
             THEN getenv(env_key_with_prefix)
        ELSE IF ~IsNone(getenv(env_key_provider)) THEN getenv(env_key_provider)
        ELSE IF ~IsNone(getenv(key_upper)) THEN getenv(key_upper)
        ELSE default

\* the config is changed and the cached status is left in place
configure_keeping_cache(p, config, replace) ==
    LET q == IF IsSet(p.config) THEN p ELSE [p EXCEPT !.config = Some(<<>>)]
        filtered == _filter_config(q, config)
    IN  [q EXCEPT !.config = Some(IF replace THEN filtered
                                  ELSE DictUpdate(q.config[1], filtered))]

configure(p, config, replace) ==
    LET q == IF IsSet(p.config) THEN p ELSE [p EXCEPT !.config = Some(<<>>)]
        filtered == _filter_config(q, config)
    IN  clear_config_cache(
            [q EXCEPT !.config = Some(IF replace THEN filtered
                                      ELSE DictUpdate(q.config[1], filtered))])

\* a key counts only when a value other than None is found for it
config_keys_status_by_value(p, config_to_check) ==
    DictComprehension(p.config_keys,
        LAMBDA key : \/ ~IsNone(config_get(config_to_check, key))
                     \/ ~IsNone(config_get(p.config_defaults, key))
                     \/ ~IsNone(_get_config_or_env(p, key, PyNone)),
        <<>>)

\* status computed by check_config_keys for the mapping config_to_check
config_keys_status(p, config_to_check) ==
    DictComprehension(p.config_keys,
        LAMBDA key : \/ DictHas(config_to_check, key)
                     \/ DictHas(p.config_defaults, key)
                     \/ ~IsNone(_get_config_or_env(p, key, PyNone)),
        <<>>)

\* the status is computed from the stored config on every call
check_config_keys_uncached(p) == config_keys_status(p, stored_config(p))

\* check_config_keys() with no argument
check_config_keys(p) ==
    IF IsSet(p.config_keys_cache) THEN p.config_keys_cache[1]
    ELSE config_keys_status(p, stored_config(p))

after_check_config_keys(p) == [p EXCEPT !.config_keys_cache = Some(check_config_keys(p))]

is_config_ready(p) == All(DictValues(check_config_keys(p)))

get_missing_config_keys(p) ==
    DictKeys(SelectSeq(check_config_keys(p), LAMBDA kv : ~kv[2]))

----------------------------------------------------------------------------
(* ServiceMixin, src/providerkit/kit/service.py *)

\* kind of the attribute getattr(self, name, None) finds:
\* "absent" (None), "method" (bound callable), "type" (nested class), "value"
attr_kind(p, name) == IF DictHas(p.attrs, name) THEN DictGet(p.attrs, name) ELSE "absent"

\* everything taken for callable
is_callable_any(kind) == TRUE

\* callable(x)
is_callable(kind) == kind \in {"method", "type"}

get_required_services(p) == p.services

is_service_implemented(p, service_name) ==
    is_callable(attr_kind(p, service_name)) /\ attr_kind(p, service_name) # "type"

check_services(p) ==
    IF IsSet(p.services_cache) THEN p.services_cache[1]
    ELSE DictComprehension(get_required_services(p),
                           LAMBDA service : is_service_implemented(p, service), <<>>)

after_check_services(p) == [p EXCEPT !.services_cache = Some(check_services(p))]

clear_services_cache(p) == [p EXCEPT !.services_cache = Absent]

\* any() instead of all()
are_services_implemented_any(p) ==
    check_services(p) = <<>> \/ \E i \in DOMAIN check_services(p) : check_services(p)[i][2]

are_services_implemented(p) == All(DictValues(check_services(p)))

get_missing_services(p) ==
    DictKeys(SelectSeq(check_services(p), LAMBDA kv : ~kv[2]))

----------------------------------------------------------------------------
(* ProviderBase, src/providerkit/kit/__init__.py *)

Ok(v) == [kind |-> "ok", type |-> "ok", value |-> v]

\* how a call ends; type is the Python type of what is returned or raised
Returned(type, v) == [kind |-> "return", type |-> type, value |-> v]

Raised(exc, msg) == [kind |-> "raise", type |-> exc, value |-> msg]

NoOutcome == [kind |-> "none", type |-> "none", value |-> <<>>]

\* A provider type is a record of its class attributes; name and display_name
\* are optional because ProviderBase only annotates them.
\* self right after object creation: class attributes, no instance attribute
bare_instance(cls) ==
    [class_name |-> cls.class_name, module |-> cls.module,
     name |-> cls.name, display_name |-> cls.display_name,
     description |-> cls.description, path |-> PyNone,
     class_path |-> Absent, instance_class_name |-> Absent,
     provider_can_be_used |-> cls.provider_can_be_used,
     required_packages |-> cls.required_packages,
     config_keys |-> cls.config_keys, config_prefix |-> cls.config_prefix,
     config_defaults |-> cls.config_defaults,
     services |-> cls.services, attrs |-> cls.attrs,
     config |-> Absent, packages_cache |-> Absent,
     config_keys_cache |-> Absent, services_cache |-> Absent]

\* the value is stored whatever it is
mandatory_field_unchecked(field, class_attr, kwargs) ==
    IF ~IsSet(class_attr) THEN Raised("AttributeError", <<field>>)
    ELSE LET value == IF DictHas(kwargs, field) THEN DictGet(kwargs, field)
                      ELSE PyStr(class_attr[1])
         IN  Ok(IF IsNone(value) THEN <<>> ELSE value[2])

\* one round of the mandatory_base_fields loop for a field whose class
\* attribute is class_attr: the value to store, or the exception raised
mandatory_field(field, class_attr, kwargs) ==
    IF ~IsSet(class_attr) THEN Raised("AttributeError", <<field>>)
    ELSE LET value == IF DictHas(kwargs, field) THEN DictGet(kwargs, field)
                      ELSE PyStr(class_attr[1])
         IN  IF ~Truthy(value) THEN Raised("ValueError", <<field, "is required and cannot be empty">>)
             ELSE Ok(value[2])

\* ProviderBase.__init__(**kwargs) with kwargs split into config and the rest;
\* config_arg is <<"None">>, <<"dict", d>> or <<"other">>
new_provider(cls, config_arg, kwargs) ==
    LET self0 == bare_instance(cls)
        n == mandatory_field("name", cls.name, kwargs)
        d == mandatory_field("display_name", cls.display_name, kwargs)
    IN  IF n.kind = "raise" THEN n
        ELSE IF d.kind = "raise" THEN d
        ELSE LET self1 == [self0 EXCEPT !.name = n.value, !.display_name = d.value]
                 self2 == CASE config_arg[1] = "None" -> self1
                            [] config_arg[1] = "dict" -> _init_config(self1, Some(config_arg[2]))
                            [] OTHER -> _init_config(self1, Absent)
                 self3 == IF DictHas(kwargs, "description")
                          THEN [self2 EXCEPT !.description = DictGet(kwargs, "description")]
                          ELSE self2
                 self4 == IF DictHas(kwargs, "path")
                          THEN [self3 EXCEPT !.path = DictGet(kwargs, "path")]
                          ELSE self3
             IN  Ok(self4)

----------------------------------------------------------------------------
(* The loaders, src/providerkit/helpers.py *)

\* A provider type with the defaults of ProviderBase and its mixins
provider_class(class_name, module, name, display_name) ==
    [kind |-> "provider", class_name |-> class_name, module |-> module,
     defined_in |-> module,
     name |-> name, display_name |-> display_name, description |-> PyNone,
     provider_can_be_used |-> Absent,
     required_packages |-> <<>>, config_keys |-> <<>>, config_prefix |-> <<>>,
     config_defaults |-> <<>>, services |-> <<>>, attrs |-> <<>>]

AProvider ==
    [provider_class(<<"A", "P", "r", "o", "v", "i", "d", "e", "r">>, <<"m">>,
                    Some(<<"A", "b">>), Some(<<"A", "b">>))
        EXCEPT !.services = <<"cmd">>, !.attrs = << <<"cmd", "method">> >>,
               !.config_keys = << <<"k">> >>]

BProvider ==
    [provider_class(<<"B", "P", "r", "o", "v", "i", "d", "e", "r">>, <<"m">>,
                    Some(<<"b">>), Some(<<"B">>))
        EXCEPT !.services = <<"cmd">>, !.attrs = << <<"cmd", "method">> >>]

KProvider ==
    [provider_class(<<"K", "P", "r", "o", "v", "i", "d", "e", "r">>, <<"d", "k">>,
                    Some(<<"k">>), Some(<<"K">>))
        EXCEPT !.attrs = << <<"cmd", "method">> >>]

LProvider ==
    [provider_class(<<"L", "P", "r", "o", "v", "i", "d", "e", "r">>,
                    <<"L", "providers", "l">>, Some(<<"l">>), Some(<<"L">>))
        EXCEPT !.attrs = << <<"cmd", "method">> >>]

\* a class that is not a provider
Helper == [kind |-> "class", class_name |-> <<"H">>, module |-> <<"m">>]

\* sys.modules / the import system: module path -> (attribute name -> object)
Modules ==
    << << <<"m">>, << <<AProvider.class_name, AProvider>>,
                      <<BProvider.class_name, BProvider>>,
                      <<Helper.class_name, Helper>> >> >>,
       << <<"d", "k">>, << <<KProvider.class_name, KProvider>> >> >>,
       << <<"L", "providers", "l">>, << <<LProvider.class_name, LProvider>> >> >> >>

\* one record of a declarative config list
config_record(class_path, config_arg, kwargs) ==
    [class |-> class_path, config |-> config_arg, kwargs |-> kwargs]

\* the body of the for loop of _load_providers_from_config for one record:
\* the providers dict afterwards, or the exception that leaves the loop
\* the instance is stored under its name as declared, not lower-cased
store_provider_exact_key(loaded, made) ==
    IF made.kind = "raise"
    THEN IF made.type \in {"ImportError", "AttributeError", "TypeError"}
         THEN Ok(loaded)
         ELSE made
    ELSE IF made.value.name # <<>>
    THEN Ok(DictSet(loaded, made.value.name, made.value))
    ELSE Ok(loaded)

\* the provider class was called with outcome made: the three caught
\* exceptions skip the record, any other leaves the loop, and an instance
\* with a name is stored under the lower-cased name
store_provider(loaded, made) ==
    IF made.kind = "raise"
    THEN IF made.type \in {"ImportError", "AttributeError", "TypeError"}
         THEN Ok(loaded)
         ELSE made
    ELSE IF Lower(made.value.name) # <<>>
    THEN Ok(DictSet(loaded, Lower(made.value.name), made.value))
    ELSE Ok(loaded)

load_one_record(loaded, provider_config) ==
    LET class_path == provider_config.class
        module_path == SubSeq(class_path, 1, Len(class_path) - 1)
        class_name == class_path[Len(class_path)]
        module == DictGet(Modules, module_path)
        provider_cls == DictGet(module, class_name)
    IN  IF class_path = <<>> THEN Ok(loaded)
        ELSE IF module_path = <<>> THEN Raised("ValueError", <<"Empty module name">>)
        ELSE IF ~DictHas(Modules, module_path) THEN Ok(loaded)
        ELSE IF ~DictHas(module, class_name) THEN Ok(loaded)
        ELSE IF provider_cls.kind # "provider" THEN Ok(loaded)
        ELSE store_provider(loaded,
                            new_provider(provider_cls, provider_config.config,
                                         provider_config.kwargs))

RECURSIVE load_records(_, _)

\* after one record: an exception that was not caught leaves the loop,
\* otherwise the loop goes on with the remaining records
next_record(step, remaining) ==
    IF step.kind = "raise" THEN step ELSE load_records(step.value, remaining)

load_records(loaded, config) ==
    IF config = <<>> THEN Ok(loaded)
    ELSE next_record(load_one_record(loaded, config[1]), Tail(config))

_load_providers_from_config(config) == load_records(<<>>, config)

load_providers_from_config(config) == _load_providers_from_config(config)

\* the default search_paths for a library name
json_search_paths(lib_name) ==
    << <<".", lib_name, ".json">>, <<lib_name, ".json">>, <<"~/.", lib_name, ".json">> >>

\* Path(path).exists()
path_exists(path) == DictHas(fs.files, path) \/ DictHas(fs.dirs, path)

\* the first existing search path, if any (the for ... else of the search)
first_existing(paths) ==
    LET hits == SelectSeq(paths, path_exists)
    IN  IF hits = <<>> THEN Absent ELSE Some(hits[1])

\* json.load(f) on a file's content: <<"records", list>> is a JSON list of
\* objects, <<"number">> a JSON number, <<"object">> a non-empty JSON object,
\* <<"invalid">> text that is not JSON, <<"undecodable">> bytes that are not
\* UTF-8
json_load(content) ==
    CASE content[1] = "invalid" -> Raised("JSONDecodeError", <<>>)
      [] content[1] = "undecodable" -> Raised("UnicodeDecodeError", <<>>)
      [] OTHER -> Ok(content)

\* lines 69-70: opening a missing path or a directory raises OSError
read_json(path) ==
    IF ~DictHas(fs.files, path) THEN Raised("OSError", path)
    ELSE json_load(DictGet(fs.files, path))

\* lines 88-89 on what json.load returned: a number cannot be iterated, the
\* items of an object are its str keys, which have no get()
iterate_config(config) ==
    CASE config[1] = "records" -> _load_providers_from_config(config[2])
      [] config[1] = "number" -> Raised("TypeError", <<"not iterable">>)
      [] OTHER -> Raised("AttributeError", <<"get">>)

\* lines 68-74: JSONDecodeError and OSError give {}, any other exception
\* of the read propagates
load_json_config(read) ==
    IF read.kind = "raise"
    THEN IF read.type \in {"JSONDecodeError", "OSError"} THEN Ok(<<>>) ELSE read
    ELSE iterate_config(read.value)

\* json_path is Absent (None) or Some(path)
load_providers_from_json(json_path, lib_name) ==
    LET chosen == IF IsSet(json_path) THEN json_path
                  ELSE first_existing(json_search_paths(lib_name))
    IN  IF ~IsSet(chosen) THEN Ok(<<>>)
        ELSE load_json_config(read_json(chosen[1]))

\* exclude_files default ["__init__.py", "base.py"], as file stems
default_exclude_files ==
    { <<"_", "_", "i", "n", "i", "t", "_", "_">>, <<"b", "a", "s", "e">> }

\* "Provider" in name
has_provider_in_name(name) == Contains(name, <<"P", "r", "o", "v", "i", "d", "e", "r">>)

\* _extract_providers_from_module: members is inspect.getmembers(module, isclass)
RECURSIVE _extract_providers_from_module(_, _, _)
_extract_providers_from_module(members, module_path, found) ==
    IF members = <<>> THEN found
    ELSE LET obj == members[1]
             provider_name == IF IsSet(obj.name) THEN Lower(obj.name[1]) ELSE <<>>
             keep == /\ obj.kind = "provider"
                     /\ obj.defined_in = module_path
                     /\ has_provider_in_name(obj.class_name)
                     /\ provider_name # <<>>
         IN  _extract_providers_from_module(Tail(members), module_path,
                 IF keep THEN DictSet(found, provider_name, obj) ELSE found)

\* the for loop of autodiscover_providers over dir_path.rglob("*.py"); a file
\* is [stem, load, module_path, members] where load is "ok" or the exception
\* importing it raises
RECURSIVE discover_files(_, _)
discover_files(files, found) ==
    IF files = <<>> THEN Ok(found)
    ELSE LET py_file == files[1]
         IN  IF py_file.stem \in default_exclude_files \/ py_file.stem[1] = "_"
             THEN discover_files(Tail(files), found)
             ELSE IF py_file.load = "ok"
             THEN discover_files(Tail(files),
                      DictUpdate(found, _extract_providers_from_module(
                                            py_file.members, py_file.module_path, <<>>)))
             ELSE IF py_file.load \in {"ImportError", "AttributeError", "TypeError", "ValueError"}
             THEN discover_files(Tail(files), found)
             ELSE Raised(py_file.load, py_file.stem)

autodiscover_providers(dir_path) ==
    IF ~DictHas(fs.dirs, dir_path) THEN Ok(<<>>)
    ELSE discover_files(DictGet(fs.dirs, dir_path), <<>>)

\* the instantiation loop of _load_providers_from_dir
RECURSIVE instantiate_classes(_, _)
instantiate_classes(provider_classes, loaded) ==
    IF provider_classes = <<>> THEN Ok(loaded)
    ELSE LET name == provider_classes[1][1]
             provider_cls == provider_classes[1][2]
             made == new_provider(provider_cls, <<"None">>,
                                  << <<"path", PyStr(provider_cls.module)>> >>)
             inst == [made.value EXCEPT !.instance_class_name = Some(provider_cls.class_name),
                                        !.class_path = Some(provider_cls.module)]
         IN  IF made.kind = "ok"
             THEN instantiate_classes(Tail(provider_classes), DictSet(loaded, name, inst))
             ELSE IF made.type \in {"TypeError", "ValueError"}
             THEN instantiate_classes(Tail(provider_classes), loaded)
             ELSE made

\* the scan is run without the two checks of the root
_load_providers_from_dir_unchecked(dir_path) ==
    LET provider_classes == autodiscover_providers(dir_path)
    IN  IF provider_classes.kind = "raise" THEN provider_classes
        ELSE instantiate_classes(provider_classes.value, <<>>)

_load_providers_from_dir(dir_path) ==
    IF ~path_exists(dir_path) THEN Raised("FileNotFoundError", dir_path)
    ELSE IF ~DictHas(fs.dirs, dir_path) THEN Raised("NotADirectoryError", dir_path)
    ELSE LET provider_classes == autodiscover_providers(dir_path)
         IN  IF provider_classes.kind = "raise" THEN provider_classes
             ELSE instantiate_classes(provider_classes.value, <<>>)

\* the providers directory of an importable package, if it is a directory
_find_package_providers_dir(lib_name) ==
    IF lib_name \in fs.packages /\ DictHas(fs.dirs, <<lib_name, "providers">>)
    THEN Some(<<lib_name, "providers">>)
    ELSE Absent

\* getattr(provider, field, None) for the data attributes of a provider
field_value(p, field) ==
    CASE field = "name" -> PyStr(p.name)
      [] field = "display_name" -> PyStr(p.display_name)
      [] field = "description" -> p.description
      [] field = "path" -> p.path
      [] field = "class_name" ->
            IF IsSet(p.instance_class_name) THEN PyStr(p.instance_class_name[1]) ELSE PyNone
      [] field = "class_path" ->
            IF IsSet(p.class_path) THEN PyStr(p.class_path[1]) ELSE PyNone
      [] field = "provider_can_be_used" ->
            IF IsSet(p.provider_can_be_used) THEN PyBool(p.provider_can_be_used[1]) ELSE PyNone
      [] OTHER -> PyNone

default_search_fields == <<"name", "display_name", "description">>

\* the query is compared as it is written
filter_providers_case_sensitive(provs, query_string, search_fields, additional_fields) ==
    IF ~IsSet(query_string) \/ query_string[1] = <<>> THEN provs
    ELSE LET all_fields ==
                 (IF IsSet(search_fields) THEN search_fields[1] ELSE default_search_fields)
                 \o (IF IsSet(additional_fields) THEN additional_fields[1] ELSE <<>>)
             matches(p) ==
                 \E i \in DOMAIN all_fields :
                     LET value == field_value(p, all_fields[i])
                     IN  /\ Truthy(value)
                         /\ Contains(str_of(value), query_string[1])
         IN  SelectSeq(provs, LAMBDA kv : matches(kv[2]))

\* query_string and the fields are None (Absent) or set
filter_providers(provs, query_string, search_fields, additional_fields) ==
    IF ~IsSet(query_string) \/ query_string[1] = <<>> THEN provs
    ELSE LET all_fields ==
                 (IF IsSet(search_fields) THEN search_fields[1] ELSE default_search_fields)
                 \o (IF IsSet(additional_fields) THEN additional_fields[1] ELSE <<>>)
             query_lower == Lower(query_string[1])
             matches(p) ==
                 \E i \in DOMAIN all_fields :
                     LET value == field_value(p, all_fields[i])
                     IN  /\ Truthy(value)
                         /\ Contains(Lower(str_of(value)), query_lower)
         IN  SelectSeq(provs, LAMBDA kv : matches(kv[2]))

\* lines 679-682: getattr(provider, attr_name, None), called when it is
\* callable; of the methods of a provider the readiness methods are modelled
resolved_attribute(p, attr_name) ==
    CASE attr_name = "are_packages_installed" -> PyBool(are_packages_installed(p))
      [] attr_name = "is_config_ready" -> PyBool(is_config_ready(p))
      [] attr_name = "are_services_implemented" -> PyBool(are_services_implemented(p))
      [] OTHER -> field_value(p, attr_name)

\* the provider after attr_name was resolved on it: a readiness method
\* stores the status it computed
after_resolved(p, attr_name) ==
    CASE attr_name = "are_packages_installed" -> after_check_packages(p)
      [] attr_name = "is_config_ready" -> after_check_config_keys(p)
      [] attr_name = "are_services_implemented" -> after_check_services(p)
      [] OTHER -> p

\* a kept provider has had every searched attribute resolved
RECURSIVE after_all_resolved(_, _)
after_all_resolved(p, attribute_search) ==
    IF attribute_search = <<>> THEN p
    ELSE after_all_resolved(after_resolved(p, attribute_search[1][1]), Tail(attribute_search))

\* search_lower in ("true", "1", "yes", "on")
truthy_tokens == { <<"t", "r", "u", "e">>, <<"1">>, <<"y", "e", "s">>, <<"o", "n">> }

\* a boolean value is compared as text, like any other value
match_one_as_text(p, attr_name, search_value) ==
    CASE IsNone(resolved_attribute(p, attr_name)) -> FALSE
      [] OTHER -> Contains(Lower(str_of(resolved_attribute(p, attr_name))), Lower(search_value))

\* lines 678-692 for one (attr_name, search_value) pair
match_one(p, attr_name, search_value) ==
    CASE IsNone(resolved_attribute(p, attr_name)) -> FALSE
      [] IsBool(resolved_attribute(p, attr_name)) ->
            resolved_attribute(p, attr_name)[2] = (Lower(search_value) \in truthy_tokens)
      [] OTHER -> Contains(Lower(str_of(resolved_attribute(p, attr_name))), Lower(search_value))

\* attribute_search is a dict attribute name -> search string
_filter_providers_by_attributes(provs, attribute_search) ==
    IF attribute_search = <<>> THEN provs
    ELSE LET matches(p) ==
                 \A i \in DOMAIN attribute_search :
                     match_one(p, attribute_search[i][1], attribute_search[i][2])
             kept == SelectSeq(provs, LAMBDA kv : matches(kv[2]))
         IN  [i \in DOMAIN kept |-> <<kept[i][1], after_all_resolved(kept[i][2], attribute_search)>>]

\* format_providers(providers, format): the rendering is opaque; a format
\* that is not table, json or xml raises ValueError
\* lines 727-733: the providers directory of the package, when it has one
_load_package_providers(providers_dir) ==
    IF IsSet(providers_dir) THEN _load_providers_from_dir(providers_dir[1]) ELSE Ok(<<>>)

format_providers(provs, format) ==
    IF format \in {"table", "json", "xml"}
    THEN Ok(<<"formatted providers", format, provs>>)
    ELSE Raised("ValueError", <<"Invalid format", format>>)

\* get_providers(json, lib_name, config, dir_path, ...): a is the record of
\* its keyword arguments, None being Absent
\* lines 720-733: the one source the providers are loaded from
load_source(a) ==
    IF IsSet(a.config) THEN load_providers_from_config(a.config[1])
    ELSE IF IsSet(a.dir_path) THEN _load_providers_from_dir(a.dir_path[1])
    ELSE IF IsSet(a.json) THEN load_providers_from_json(a.json, a.lib_name)
    ELSE _load_package_providers(_find_package_providers_dir(a.lib_name))

\* lines 746-749: the filtered providers, formatted when a format is given
present_providers(a, filtered) ==
    IF IsSet(a.format) THEN format_providers(filtered, a.format[1]) ELSE Ok(filtered)

\* lines 735-744: the query string and the attribute criteria
select_providers(a, source) ==
    LET additional_fields ==
            IF IsSet(a.dir_path) THEN Some(<<"class_name", "class_path">>) ELSE Absent
        queried == filter_providers(source.value, a.query_string, a.search_fields,
                                    additional_fields)
    IN  IF source.kind = "raise" THEN source
        ELSE IF IsSet(a.attribute_search)
        THEN present_providers(a, _filter_providers_by_attributes(
                                      queried, a.attribute_search[1]))
        ELSE present_providers(a, queried)

get_providers(a) == select_providers(a, load_source(a))

----------------------------------------------------------------------------
(* The invokers, src/providerkit/helpers.py *)

\* the unusable mark ignored
marked_unusable_ignored(p) == FALSE

\* hasattr(provider, "provider_can_be_used") and provider.provider_can_be_used is False
marked_unusable(p) == IsSet(p.provider_can_be_used) /\ p.provider_can_be_used[1] = FALSE

\* sum(1 for service in services if provider.is_service_implemented(service))
implemented_count(p) ==
    Cardinality({i \in DOMAIN get_required_services(p) :
                    is_service_implemented(p, get_required_services(p)[i])})

package_errors(p) ==
    IF are_packages_installed(p) THEN <<>>
    ELSE IF get_missing_packages(p) # <<>>
         THEN << <<"Packages missing:", get_missing_packages(p)>> >>
         ELSE << <<"package_missing">> >>

\* q is the provider after are_packages_installed()
config_errors(q) ==
    IF is_config_ready(q) THEN <<>>
    ELSE IF get_missing_config_keys(q) # <<>>
         THEN << <<"Config missing:", get_missing_config_keys(q)>> >>
         ELSE << <<"config_missing">> >>

\* try_providers checks the service named by the command only
service_errors(p, command) ==
    IF is_service_implemented(p, command) THEN <<>>
    ELSE IF get_required_services(p) # <<>>
         THEN << <<"Service missing:", command, implemented_count(p),
                   Len(get_required_services(p))>> >>
         ELSE << <<"Service missing:", command>> >>

\* try_providers_first checks every declared service
services_errors_first(p) ==
    IF are_services_implemented(p) THEN <<>>
    ELSE IF get_required_services(p) # <<>>
         THEN IF get_missing_services(p) # <<>>
              THEN << <<"Services missing:", get_missing_services(p),
                        implemented_count(p), Len(get_required_services(p))>> >>
              ELSE << <<"Services missing", implemented_count(p),
                        Len(get_required_services(p))>> >>
         ELSE << <<"service_missing">> >>

\* only the first failing check is reported
readiness_errors_first_only(p, command) ==
    IF package_errors(p) # <<>> THEN package_errors(p)
    ELSE IF config_errors(after_check_packages(p)) # <<>>
    THEN config_errors(after_check_packages(p))
    ELSE service_errors(p, command)

\* the errors list try_providers builds for one provider
readiness_errors(p, command) ==
    package_errors(p) \o config_errors(after_check_packages(p)) \o service_errors(p, command)

\* the errors list try_providers_first builds for one provider
readiness_errors_first(p) ==
    package_errors(p) \o config_errors(after_check_packages(p))
        \o services_errors_first(after_check_config_keys(after_check_packages(p)))

\* the provider after the readiness checks of try_providers
after_readiness(p) == after_check_config_keys(after_check_packages(p))

\* the provider after the readiness checks of try_providers_first
after_readiness_first(p) ==
    after_check_services(after_check_config_keys(after_check_packages(p)))

errors_entry(errors, p) == << <<"errors", errors>>, <<"provider", p.display_name>> >>

result_entry(result, p) == << <<"result", result>>, <<"provider", p.display_name>> >>

error_entry(message, p) == << <<"error", message>>, <<"provider", p.display_name>> >>

\* what calling the provider's method can do: return a value or raise an Exception
method_outcomes(key) ==
    { [kind |-> "return", value |-> <<"value of", key>>],
      [kind |-> "raise", value |-> <<"exception of", key>>] }

\* the "Method ... not found in any provider." message
method_not_found(command, without_method) ==
    IF Len(without_method) <= 5
    THEN <<"Method not found in any provider. Checked providers:", command, without_method>>
    ELSE <<"Method not found in any provider. Checked", command, Len(without_method)>>

\* _format_results(results, format): the rendering is opaque; a format that
\* is not table, json, xml or raw raises ValueError
_format_results(res, format) ==
    IF format \in {"table", "json", "xml", "raw"}
    THEN Returned("str", <<"formatted", format, res>>)
    ELSE Raised("ValueError", <<"Invalid format", format>>)

\* the arguments of try_providers / try_providers_first that get_providers receives
loader_args(a) == [a EXCEPT !.format = Absent]

\* lines 775-789 and 879-893: the collection given, or the one loaded
given_or_loaded(a) ==
    IF IsSet(a.providers) THEN Ok(a.providers[1]) ELSE get_providers(loader_args(a))

\* lines 791-792 and 895-896
reject_empty(loaded) ==
    IF loaded.kind = "raise" THEN loaded
    ELSE IF loaded.value = <<>> THEN Raised("RuntimeError", <<"No providers available">>)
    ELSE loaded

\* the empty collection is not rejected
resolve_providers_unchecked(a) == given_or_loaded(a)

\* lines 775-792 and 879-896: the collection to iterate, or the error raised
resolve_providers(a) == reject_empty(given_or_loaded(a))

enter_loop(provs) ==
    /\ providers' = provs
    /\ pc' = "loop"
    /\ idx' = 0
    /\ results' = <<>>
    /\ providers_without_method' = <<>>
    /\ calls' = [i \in DOMAIN provs |-> 0]
    /\ outcome' = NoOutcome

finish(out) ==
    /\ pc' = "done"
    /\ outcome' = out
    /\ UNCHANGED <<providers, idx, results, providers_without_method, calls>>

\* an exception wipes the entries recorded so far
record_outcome_wiping(res, provider_name, out, p) ==
    IF out.kind = "return" THEN DictSet(res, provider_name, result_entry(out.value, p))
    ELSE << <<provider_name, error_entry(out.value, p)>> >>

\* lines 835-837: the results after the method returned or raised
record_outcome(res, provider_name, out, p) ==
    DictSet(res, provider_name,
            IF out.kind = "return" THEN result_entry(out.value, p)
            ELSE error_entry(out.value, p))

\* an explanation handed back whenever nothing was recorded
try_providers_outcome_explaining(res, without_method, format, command) ==
    IF res = <<>>
    THEN LET error_msg == method_not_found(command, without_method)
         IN  IF IsSet(format) THEN Returned("str", error_msg)
             ELSE Returned("error_dict", << <<"error", error_msg>> >>)
    ELSE IF IsSet(format) THEN _format_results(res, format[1])
    ELSE Returned("results", res)

\* lines 839-852: what try_providers hands back after the loop
try_providers_outcome(res, without_method, format, command) ==
    IF res = <<>> /\ without_method # <<>>
    THEN LET error_msg == method_not_found(command, without_method)
         IN  IF IsSet(format) THEN Returned("str", error_msg)
             ELSE Returned("error_dict", << <<"error", error_msg>> >>)
    ELSE IF IsSet(format) THEN _format_results(res, format[1])
    ELSE Returned("results", res)

\* the failure mapping handed back instead of raising
try_providers_first_outcome_returning(res, without_method, format, command) ==
    IF res = <<>> /\ without_method # <<>>
    THEN Raised("RuntimeError", method_not_found(command, without_method))
    ELSE IF IsSet(format) THEN _format_results(res, format[1])
    ELSE Returned("results", res)

\* lines 954-965: how try_providers_first ends when no provider succeeded
try_providers_first_outcome(res, without_method, format, command) ==
    IF res = <<>> /\ without_method # <<>>
    THEN Raised("RuntimeError", method_not_found(command, without_method))
    ELSE IF IsSet(format) THEN _format_results(res, format[1])
    ELSE Raised("RuntimeError", <<"Command failed on all providers", command>>)

\* the loop goes on after a success
pc_after_success_continue == "loop"

\* lines 946-950: try_providers_first returns from inside the loop
pc_after_success == "done"

\* try_providers up to the for loop
try_providers_start ==
    /\ pc = "idle"
    /\ args.fn = "try_providers"
    /\ \E r \in {resolve_providers(args)} :
          IF r.kind = "raise" THEN finish(r) ELSE enter_loop(r.value)
    /\ UNCHANGED <<installed, environ, fs, args>>

\* one iteration of the for loop of try_providers
try_providers_step ==
    /\ pc = "loop"
    /\ args.fn = "try_providers"
    /\ idx < Len(providers)
    /\ LET i == idx + 1
           provider_name == providers[i][1]
           provider == providers[i][2]
           errors == readiness_errors(provider, args.command)
           checked == after_readiness(provider)
           method == attr_kind(checked, args.command)
       IN  /\ idx' = i
           /\ IF marked_unusable(provider)
              THEN UNCHANGED <<providers, results, providers_without_method, calls>>
              ELSE /\ providers' = [providers EXCEPT ![i] = <<provider_name, checked>>]
                   /\ IF errors # <<>>
                      THEN /\ results' = DictSet(results, provider_name,
                                                 errors_entry(errors, checked))
                           /\ UNCHANGED <<providers_without_method, calls>>
                      ELSE IF ~is_callable(method)
                      THEN /\ providers_without_method' =
                                  Append(providers_without_method, provider_name)
                           /\ UNCHANGED <<results, calls>>
                      ELSE \E out \in method_outcomes(provider_name) :
                              /\ calls' = [calls EXCEPT ![i] = @ + 1]
                              /\ results' = record_outcome(results, provider_name,
                                                           out, checked)
                              /\ UNCHANGED providers_without_method
    /\ UNCHANGED <<installed, environ, fs, args, pc, outcome>>

\* try_providers after the for loop
try_providers_finish ==
    /\ pc = "loop"
    /\ args.fn = "try_providers"
    /\ idx = Len(providers)
    /\ finish(try_providers_outcome(results, providers_without_method, args.format,
                                    args.command))
    /\ UNCHANGED <<installed, environ, fs, args>>

\* lines 942-952: the method of try_providers_first's current provider ran
\* with outcome out; a ValueError of _format_results is caught like an
\* exception of the method
first_call_effect(provider_name, p, out) ==
    LET result_data == result_entry(out.value, p)
        formatted == _format_results(<< <<provider_name, result_data>> >>, args.format[1])
    IN  IF out.kind = "raise"
        THEN /\ results' = DictSet(results, provider_name, error_entry(out.value, p))
             /\ UNCHANGED <<pc, outcome>>
        ELSE IF ~IsSet(args.format)
        THEN /\ results' = DictSet(results, provider_name, result_data)
             /\ pc' = pc_after_success
             /\ outcome' = Returned("result", out.value)
        ELSE IF formatted.kind = "return"
        THEN /\ results' = DictSet(results, provider_name, result_data)
             /\ pc' = pc_after_success
             /\ outcome' = formatted
        ELSE /\ results' = DictSet(DictSet(results, provider_name, result_data),
                                   provider_name, error_entry(formatted.value, p))
             /\ UNCHANGED <<pc, outcome>>

\* try_providers_first up to the for loop
try_providers_first_start ==
    /\ pc = "idle"
    /\ args.fn = "try_providers_first"
    /\ \E r \in {resolve_providers(args)} :
          IF r.kind = "raise" THEN finish(r) ELSE enter_loop(r.value)
    /\ UNCHANGED <<installed, environ, fs, args>>

\* one iteration of the for loop of try_providers_first
try_providers_first_step ==
    /\ pc = "loop"
    /\ args.fn = "try_providers_first"
    /\ idx < Len(providers)
    /\ LET i == idx + 1
           provider_name == providers[i][1]
           provider == providers[i][2]
           errors == readiness_errors_first(provider)
           checked == after_readiness_first(provider)
           method == attr_kind(checked, args.command)
       IN  /\ idx' = i
           /\ IF marked_unusable(provider)
              THEN UNCHANGED <<providers, results, providers_without_method, calls,
                               pc, outcome>>
              ELSE /\ providers' = [providers EXCEPT ![i] = <<provider_name, checked>>]
                   /\ IF errors # <<>>
                      THEN /\ results' = DictSet(results, provider_name,
                                                 errors_entry(errors, checked))
                           /\ UNCHANGED <<providers_without_method, calls, pc, outcome>>
                      ELSE IF ~is_callable(method)
                      THEN /\ providers_without_method' =
                                  Append(providers_without_method, provider_name)
                           /\ UNCHANGED <<results, calls, pc, outcome>>
                      ELSE \E out \in method_outcomes(provider_name) :
                              /\ calls' = [calls EXCEPT ![i] = @ + 1]
                              /\ UNCHANGED providers_without_method
                              /\ first_call_effect(provider_name, checked, out)
    /\ UNCHANGED <<installed, environ, fs, args>>

\* try_providers_first after the for loop
try_providers_first_finish ==
    /\ pc = "loop"
    /\ args.fn = "try_providers_first"
    /\ idx = Len(providers)
    /\ finish(try_providers_first_outcome(results, providers_without_method,
                                          args.format, args.command))
    /\ UNCHANGED <<installed, environ, fs, args>>

----------------------------------------------------------------------------
(* Inputs of the invokers *)

\* modules find_spec resolves
Installed == { <<"p", "a">>, <<"p", "_", "b">> }

\* required_packages whose modules are all installed / not all installed
ReadyPackages == << <<"p", "a">>, <<"p", "-", "b">> >>

PackageChoices == { ReadyPackages, << <<"p", "c">>, <<"p", "a">>, <<"p", "d">> >> }

\* config given to a provider that declares config_keys k and j: complete / not
ReadyConfig == << <<<<"k">>, PyStr(<<"v">>)>>, <<<<"j">>, PyStr(<<"v">>)>> >>

ConfigChoices ==
    { ReadyConfig, << <<<<"j">>, PyStr(<<"v">>)>>, <<<<"x">>, PyStr(<<"v">>)>> >> }

\* declared services and the attributes the provider really has: the command
\* declared and implemented, or another service declared and the command absent
ServiceChoices ==
    { [services |-> <<"cmd">>, attrs |-> << <<"cmd", "method">> >>],
      [services |-> <<"oth">>, attrs |-> << <<"oth", "method">> >>] }

\* the command implemented but another declared service missing, and
\* nothing declared and nothing implemented
MoreServiceChoices ==
    { [services |-> <<"cmd", "oth">>, attrs |-> << <<"cmd", "method">> >>],
      [services |-> <<>>, attrs |-> <<>>] }

\* a provider that needs pk, is configured with cf and implements sv
usable_profile(pk, cf, sv) ==
    [required_packages |-> pk, config |-> cf, services |-> sv.services,
     attrs |-> sv.attrs, provider_can_be_used |-> Absent]

\* a provider that is ready in every respect but marked unusable
unusable_profile ==
    [required_packages |-> <<>>, config |-> <<>>, services |-> <<"cmd">>,
     attrs |-> << <<"cmd", "method">> >>, provider_can_be_used |-> Some(FALSE)]

Profiles ==
    { usable_profile(pk, cf, sv) :
         pk \in PackageChoices, cf \in ConfigChoices, sv \in ServiceChoices }
    \cup { usable_profile(ReadyPackages, ReadyConfig, sv) : sv \in MoreServiceChoices }
    \cup { unusable_profile }

\* the profiles of the longer collections: ready and implemented, failing
\* every readiness check, the two further service shapes, marked unusable
CoreProfiles ==
    { usable_profile(ReadyPackages, ReadyConfig,
                     [services |-> <<"cmd">>, attrs |-> << <<"cmd", "method">> >>]),
      usable_profile(<< <<"p", "c">>, <<"p", "a">>, <<"p", "d">> >>,
                     << <<<<"j">>, PyStr(<<"v">>)>>, <<<<"x">>, PyStr(<<"v">>)>> >>,
                     [services |-> <<"oth">>, attrs |-> << <<"oth", "method">> >>]) }
    \cup { usable_profile(ReadyPackages, ReadyConfig, sv) : sv \in MoreServiceChoices }
    \cup { unusable_profile }

\* the profiles the providers of a collection of n items are drawn from
ProfilesOfLength(n) == IF n <= FullProfileLen THEN Profiles ELSE CoreProfiles

KeyChars == <<"a", "b", "c", "d", "e", "f", "g", "h">>

\* the provider instance of a profile, named after its key
profile_provider(key, pr) ==
    new_provider(
        [provider_class(<<"X", "P", "r", "o", "v", "i", "d", "e", "r">>, <<"x">>,
                        Some(key), Some(Upper(key)))
            EXCEPT !.required_packages = pr.required_packages,
                   !.config_keys = IF pr.provider_can_be_used = Absent
                                   THEN << <<"k">>, <<"j">> >> ELSE <<>>,
                   !.services = pr.services, !.attrs = pr.attrs,
                   !.provider_can_be_used = pr.provider_can_be_used],
        <<"dict", pr.config>>, <<>>).value

\* the dict of providers whose i-th item has the i-th profile of prs
collection_of(prs) ==
    [i \in DOMAIN prs |-> << <<KeyChars[i]>>, profile_provider(<<KeyChars[i]>>, prs[i])>>]

DirectCollections ==
    { collection_of(prs) :
         prs \in UNION { [1..n -> ProfilesOfLength(n)] : n \in 0..MaxProviders } }

\* declarative config lists handed to the invokers instead of a collection
ConfigLists ==
    { <<>>,
      << config_record(<<"m", AProvider.class_name>>, <<"dict", <<>>>>, <<>>) >>,
      << config_record(<<"m", AProvider.class_name>>,
                       <<"dict", << <<<<"k">>, PyStr(<<"v">>)>> >> >>, <<>>),
         config_record(<<"m", BProvider.class_name>>, <<"dict", <<>>>>, <<>>) >> }

QueryStrings == { Absent, Some(<<"b">>), Some(<<"z">>) }

\* the format argument: none, a supported one, an unsupported one
FormatChoices == { Absent, Some("json"), Some("yaml") }

base_args ==
    [fn |-> "get_providers", command |-> "cmd", providers |-> Absent,
     json |-> Absent, lib_name |-> "L", config |-> Absent, dir_path |-> Absent,
     query_string |-> Absent, search_fields |-> Absent, attribute_search |-> Absent,
     format |-> Absent]

InvokerArgs ==
    { [base_args EXCEPT !.fn = fn, !.format = fmt, !.providers = Some(c)] :
         fn \in {"try_providers", "try_providers_first"},
         fmt \in FormatChoices,
         c \in DirectCollections }
    \cup
    { [base_args EXCEPT !.fn = fn, !.format = fmt, !.config = cfg, !.query_string = q] :
         fn \in {"try_providers", "try_providers_first"},
         fmt \in FormatChoices,
         cfg \in {Absent} \cup { Some(l) : l \in ConfigLists },
         q \in QueryStrings }

EmptyFs == [files |-> <<>>, dirs |-> <<>>, packages |-> {}]

Init ==
    /\ args \in InvokerArgs
    /\ installed = Installed
    /\ environ = <<>>
    /\ fs = EmptyFs
    /\ providers = <<>>
    /\ pc = "idle"
    /\ idx = 0
    /\ results = <<>>
    /\ providers_without_method = <<>>
    /\ calls = <<>>
    /\ outcome = NoOutcome

Next ==
    \/ try_providers_start
    \/ try_providers_step
    \/ try_providers_finish
    \/ try_providers_first_start
    \/ try_providers_first_step
    \/ try_providers_first_finish

Spec == Init /\ [][Next]_vars

----------------------------------------------------------------------------
(* get_providers called on its own *)

get_providers_call ==
    /\ pc = "idle"
    /\ args.fn = "get_providers"
    /\ \E r \in {get_providers(args)} :
          finish(IF r.kind = "raise" THEN r
                 ELSE IF IsSet(args.format) THEN Returned("str", r.value)
                 ELSE Returned("providers", r.value))
    /\ UNCHANGED <<installed, environ, fs, args>>

\* paths of the JSON files: the three search locations of library L and an
\* explicitly named file
HiddenJson == <<".", "L", ".json">>

VisibleJson == <<"L", ".json">>

HomeJson == <<"~/.", "L", ".json">>

ExplicitJson == <<"x.json">>

ARecord == config_record(<<"m", AProvider.class_name>>, <<"dict", <<>>>>, <<>>)

BRecord == config_record(<<"m", BProvider.class_name>>, <<"dict", <<>>>>, <<>>)

\* files on disk: path -> content
FileChoices ==
    { <<>>,
      << <<ExplicitJson, <<"records", <<ARecord>> >> >> >>,
      << <<HiddenJson, <<"records", <<BRecord>> >> >>,
         <<ExplicitJson, <<"records", <<ARecord>> >> >> >>,
      << <<VisibleJson, <<"records", <<ARecord, BRecord>> >> >>,
         <<HomeJson, <<"records", <<BRecord>> >> >>,
         <<ExplicitJson, <<"invalid">> >> >>,
      << <<HomeJson, <<"records", <<BRecord>> >> >> >> }

KFile == [stem |-> <<"k">>, load |-> "ok", module_path |-> <<"d", "k">>,
          members |-> <<KProvider>>]

LFile == [stem |-> <<"l">>, load |-> "ok", module_path |-> <<"L", "providers", "l">>,
          members |-> <<LProvider>>]

ScanDir == <<"d">>

\* directories on disk: path -> the *.py files below it
DirChoices ==
    { <<>>,
      << <<ScanDir, <<KFile>> >> >>,
      << <<ScanDir, <<KFile>> >>, << <<"L", "providers">>, <<LFile>> >> >> }

FsChoices ==
    { [files |-> f, dirs |-> d, packages |-> pk] :
         f \in FileChoices, d \in DirChoices, pk \in { {}, {"L"} } }

LoadArgs ==
    { [base_args EXCEPT !.json = j, !.config = cfg, !.dir_path = dp,
                        !.query_string = q, !.format = fmt] :
         j \in {Absent, Some(ExplicitJson)},
         cfg \in {Absent} \cup { Some(l) : l \in ConfigLists },
         dp \in {Absent, Some(ScanDir), Some(ExplicitJson), Some(<<"nowhere">>)},
         q \in QueryStrings,
         fmt \in FormatChoices }

InitLoad ==
    /\ args \in LoadArgs
    /\ fs \in FsChoices
    /\ installed = Installed
    /\ environ = <<>>
    /\ providers = <<>>
    /\ pc = "idle"
    /\ idx = 0
    /\ results = <<>>
    /\ providers_without_method = <<>>
    /\ calls = <<>>
    /\ outcome = NoOutcome

NextLoad == get_providers_call

SpecLoad == InitLoad /\ [][NextLoad]_vars

----------------------------------------------------------------------------
(* The loaders called directly *)

\* what a loader hands back: its collection, or the exception it lets through
loader_outcome(r) == IF r.kind = "raise" THEN r ELSE Returned("providers", r.value)

load_providers_from_config_call ==
    /\ pc = "idle"
    /\ args.fn = "load_providers_from_config"
    /\ \E r \in {load_providers_from_config(args.config[1])} : finish(loader_outcome(r))
    /\ UNCHANGED <<installed, environ, fs, args>>

load_providers_from_json_call ==
    /\ pc = "idle"
    /\ args.fn = "load_providers_from_json"
    /\ \E r \in {load_providers_from_json(args.json, args.lib_name)} :
          finish(loader_outcome(r))
    /\ UNCHANGED <<installed, environ, fs, args>>

autodiscover_providers_call ==
    /\ pc = "idle"
    /\ args.fn = "autodiscover_providers"
    /\ \E r \in {autodiscover_providers(args.dir_path[1])} : finish(loader_outcome(r))
    /\ UNCHANGED <<installed, environ, fs, args>>

_load_providers_from_dir_call ==
    /\ pc = "idle"
    /\ args.fn = "_load_providers_from_dir"
    /\ \E r \in {_load_providers_from_dir(args.dir_path[1])} : finish(loader_outcome(r))
    /\ UNCHANGED <<installed, environ, fs, args>>

\* records of a config list: B constructed under the name "AB", a module
\* that cannot be imported, a module without the class, a class that is not
\* a provider, a provider constructed with an empty name, a class path
\* without a module part, a record without "class"
BAsAbRecord ==
    config_record(<<"m", BProvider.class_name>>, <<"dict", <<>>>>,
                  << <<"name", PyStr(<<"A", "B">>)>> >>)

NoModuleRecord == config_record(<<"z", AProvider.class_name>>, <<"dict", <<>>>>, <<>>)

NoClassRecord == config_record(<<"m", <<"N">> >>, <<"dict", <<>>>>, <<>>)

HelperRecord == config_record(<<"m", Helper.class_name>>, <<"dict", <<>>>>, <<>>)

EmptyNameRecord ==
    config_record(<<"m", BProvider.class_name>>, <<"dict", <<>>>>,
                  << <<"name", PyStr(<<>>)>> >>)

NoDotRecord == config_record(<<AProvider.class_name>>, <<"dict", <<>>>>, <<>>)

NoClassKeyRecord == config_record(<<>>, <<"dict", <<>>>>, <<>>)

RecordChoices ==
    { ARecord, BRecord, BAsAbRecord, NoModuleRecord, NoClassRecord, HelperRecord,
      EmptyNameRecord, NoDotRecord, NoClassKeyRecord }

RecordLists == UNION { [1..n -> RecordChoices] : n \in 0..MaxRecords }

ConfigCalls ==
    { [base_args EXCEPT !.fn = "load_providers_from_config", !.config = Some(l)] :
         l \in RecordLists }

\* what a JSON file can hold
JsonContents ==
    { <<"records", <<ARecord>> >>, <<"records", <<BRecord, EmptyNameRecord>> >>,
      <<"invalid">>, <<"undecodable">>, <<"number">>, <<"object">> }

\* the files at the given paths, each missing or holding one of the contents
RECURSIVE files_at(_)
files_at(paths) ==
    IF paths = <<>> THEN { <<>> }
    ELSE LET rest == files_at(Tail(paths))
         IN  rest \cup { << <<paths[1], c>> >> \o r : c \in JsonContents, r \in rest }

\* the first search location may also be a directory
JsonFsChoices ==
    { [files |-> f, dirs |-> <<>>, packages |-> {}] :
         f \in files_at(<<HiddenJson, VisibleJson, HomeJson, ExplicitJson>>) }
    \cup
    { [files |-> f, dirs |-> << <<HiddenJson, <<>> >> >>, packages |-> {}] :
         f \in files_at(<<VisibleJson>>) }

JsonCalls ==
    { [base_args EXCEPT !.fn = "load_providers_from_json", !.json = j] :
         j \in {Absent, Some(ExplicitJson)} }

\* provider types below the scanned directory: Q shares the lower-cased name
\* of K, T has no display_name attribute, U an empty one, V lives in base.py
QProvider ==
    [provider_class(<<"Q", "P", "r", "o", "v", "i", "d", "e", "r">>, <<"d", "q">>,
                    Some(<<"K">>), Some(<<"Q">>))
        EXCEPT !.attrs = << <<"cmd", "method">> >>]

TProvider ==
    provider_class(<<"T", "P", "r", "o", "v", "i", "d", "e", "r">>, <<"d", "t">>,
                   Some(<<"t">>), Absent)

UProvider ==
    provider_class(<<"U", "P", "r", "o", "v", "i", "d", "e", "r">>, <<"d", "u">>,
                   Some(<<"u">>), Some(<<>>))

VProvider ==
    provider_class(<<"V", "P", "r", "o", "v", "i", "d", "e", "r">>, <<"d", "base">>,
                   Some(<<"v">>), Some(<<"V">>))

\* a provider type whose name does not contain "Provider"
Thing == provider_class(<<"T", "h", "i", "n", "g">>, <<"d", "w">>,
                        Some(<<"w">>), Some(<<"W">>))

QFile == [stem |-> <<"q">>, load |-> "ok", module_path |-> <<"d", "q">>,
          members |-> <<QProvider>>]

\* files whose import raises
ImportErrFile == [stem |-> <<"r">>, load |-> "ImportError", module_path |-> <<"d", "r">>,
                  members |-> <<>>]

SyntaxErrFile == [stem |-> <<"s">>, load |-> "SyntaxError", module_path |-> <<"d", "s">>,
                  members |-> <<>>]

TFile == [stem |-> <<"t">>, load |-> "ok", module_path |-> <<"d", "t">>,
          members |-> <<TProvider>>]

UFile == [stem |-> <<"u">>, load |-> "ok", module_path |-> <<"d", "u">>,
          members |-> <<UProvider>>]

BaseFile == [stem |-> <<"b", "a", "s", "e">>, load |-> "ok",
             module_path |-> <<"d", "base">>, members |-> <<VProvider>>]

\* a module that imports K and Helper and defines Thing
WFile == [stem |-> <<"w">>, load |-> "ok", module_path |-> <<"d", "w">>,
          members |-> <<Helper, KProvider, Thing>>]

PyFileChoices ==
    { KFile, QFile, ImportErrFile, SyntaxErrFile, TFile, UFile, BaseFile, WFile }

\* the files rglob yields, in the order it yields them
PyFileLists ==
    { l \in UNION { [1..n -> PyFileChoices] : n \in 0..MaxFiles } :
         \A i, j \in DOMAIN l : i # j => l[i] # l[j] }

\* ExplicitJson is a plain file, ScanDir a directory, "nowhere" does not exist
DirFsChoices ==
    { [files |-> << <<ExplicitJson, <<"invalid">> >> >>,
       dirs |-> << <<ScanDir, l>> >>, packages |-> {}] : l \in PyFileLists }

DirCalls ==
    { [base_args EXCEPT !.fn = fn, !.dir_path = Some(dp)] :
         fn \in {"autodiscover_providers", "_load_providers_from_dir"},
         dp \in {ScanDir, ExplicitJson, <<"nowhere">>} }

InitLoaders ==
    /\ \/ args \in ConfigCalls /\ fs = EmptyFs
       \/ args \in JsonCalls /\ fs \in JsonFsChoices
       \/ args \in DirCalls /\ fs \in DirFsChoices
    /\ installed = Installed
    /\ environ = <<>>
    /\ providers = <<>>
    /\ pc = "idle"
    /\ idx = 0
    /\ results = <<>>
    /\ providers_without_method = <<>>
    /\ calls = <<>>
    /\ outcome = NoOutcome

NextLoaders ==
    \/ load_providers_from_config_call
    \/ load_providers_from_json_call
    \/ autodiscover_providers_call
    \/ _load_providers_from_dir_call

SpecLoaders == InitLoaders /\ [][NextLoaders]_vars

----------------------------------------------------------------------------
(* Vocabulary of the properties *)

KeyAt(i) == providers[i][1]

ProviderAt(i) == providers[i][2]

\* the provider carries provider_can_be_used = False
Unusable(p) == p.provider_can_be_used = Some(FALSE)

\* no readiness check has run on the provider
Unchecked(p) ==
    /\ p.packages_cache = Absent
    /\ p.config_keys_cache = Absent
    /\ p.services_cache = Absent

\* readiness of the provider as the environment decides it
PackageFound(pkg) ==
    pkg \in installed \/ ReplaceChar(ReplaceChar(pkg, "-", "_"), ".", "_") \in installed

MissingPackagesOf(p) == SelectSeq(p.required_packages, LAMBDA pkg : ~PackageFound(pkg))

ConfigKeyFound(p, key) ==
    \/ DictHas(stored_config(p), key)
    \/ DictHas(p.config_defaults, key)
    \/ ~IsNone(_get_config_or_env(p, key, PyNone))

MissingConfigOf(p) == SelectSeq(p.config_keys, LAMBDA key : ~ConfigKeyFound(p, key))

Implements(p, service) == attr_kind(p, service) = "method"

MissingServicesOf(p) == SelectSeq(p.services, LAMBDA service : ~Implements(p, service))

PackagesOk(p) == MissingPackagesOf(p) = <<>>

ConfigOk(p) == MissingConfigOf(p) = <<>>

\* the keys among result / error / errors an entry of the result mapping has
OutcomeKeys(entry) == {entry[i][1] : i \in DOMAIN entry} \cap {"result", "error", "errors"}

HasKindIn(res, key, kind) == DictHas(res, key) /\ kind \in OutcomeKeys(DictGet(res, key))

HasEntry(key) == DictHas(results, key)

EntryOf(key) == DictGet(results, key)

HasKind(key, kind) == HasKindIn(results, key, kind)

EntriesOf(key) == {j \in DOMAIN results : results[j][1] = key}

InTryAll == args.fn = "try_providers" /\ pc \in {"loop", "done"} /\ providers # <<>>

InTryFirst == args.fn = "try_providers_first" /\ pc \in {"loop", "done"} /\ providers # <<>>

\* C1: try_providers gives every provider that is not marked unusable exactly
\* one entry of exactly one kind: errors, without calling the method, when a
\* package, config or command-service check fails, and otherwise result or
\* error after exactly one call; a provider marked unusable gets no entry, no
\* check and no call; the mapping returned is that mapping.
C1_TryAllOneEntryPerProvider ==
    InTryAll =>
        /\ \A i \in DOMAIN providers :
              LET key == KeyAt(i)
                  p == ProviderAt(i)
              IN  IF Unusable(p) \/ i > idx
                  THEN ~HasEntry(key) /\ calls[i] = 0 /\ Unchecked(p)
                  ELSE /\ Cardinality(EntriesOf(key)) = 1
                       /\ Cardinality(OutcomeKeys(EntryOf(key))) = 1
                       /\ IF ~PackagesOk(p) \/ ~ConfigOk(p) \/ ~Implements(p, args.command)
                          THEN HasKind(key, "errors") /\ calls[i] = 0
                          ELSE /\ calls[i] = 1
                               /\ \/ /\ HasKind(key, "result")
                                     /\ DictGet(EntryOf(key), "result") = <<"value of", key>>
                                  \/ /\ HasKind(key, "error")
                                     /\ DictGet(EntryOf(key), "error") = <<"exception of", key>>
        /\ \A j \in DOMAIN results : \E i \in 1..idx : results[j][1] = KeyAt(i)
        /\ (pc = "done" /\ ~IsSet(args.format)) => outcome = Returned("results", results)

\* a finished try_providers call over three providers whose mapping has one
\* result, one error and one errors entry
C1_Witness ==
    /\ InTryAll
    /\ pc = "done"
    /\ outcome.type = "results"
    /\ Len(outcome.value) = 3
    /\ \E i, j, k \in DOMAIN providers :
          /\ HasKind(KeyAt(i), "result")
          /\ HasKind(KeyAt(j), "error")
          /\ HasKind(KeyAt(k), "errors")

\* the method of the provider at position i was called and returned normally
Succeeded(i) ==
    /\ calls[i] > 0
    /\ ~ /\ HasKind(KeyAt(i), "error")
         /\ DictGet(EntryOf(KeyAt(i)), "error") = <<"exception of", KeyAt(i)>>

SupportedFormat == IsSet(args.format) /\ args.format[1] \in {"table", "json", "xml", "raw"}

UnsupportedFormat == IsSet(args.format) /\ ~SupportedFormat

\* C2 as stated: try_providers_first returns the raw result of the first
\* provider that is ready and whose method returns normally.
C2_ReturnsRawResult ==
    InTryFirst =>
        \A i \in DOMAIN providers :
            Succeeded(i) =>
                /\ pc = "done"
                /\ outcome = Returned("result", <<"value of", KeyAt(i)>>)

\* C2 amended: try_providers_first visits the providers in insertion order;
\* the first ready provider whose method returns normally ends the call,
\* which returns its raw result when no format is given and the rendering of
\* that single result entry when a supported format is given; no later
\* provider is checked or called, and earlier failures do not prevent the
\* success.  With an unsupported format the rendering fails, the failure is
\* recorded as that provider's error and the next provider is tried.
C2_FirstSuccessEndsCall ==
    InTryFirst =>
        /\ \A i \in DOMAIN providers :
              /\ i > idx => /\ Unchecked(ProviderAt(i))
                            /\ calls[i] = 0
                            /\ ~HasEntry(KeyAt(i))
              /\ (i <= idx /\ ~Unusable(ProviderAt(i))) => ~Unchecked(ProviderAt(i))
              /\ (i < idx) => (~Succeeded(i) \/ UnsupportedFormat)
              /\ (i <= idx /\ ~Unusable(ProviderAt(i)) /\ PackagesOk(ProviderAt(i))
                    /\ ConfigOk(ProviderAt(i)) /\ MissingServicesOf(ProviderAt(i)) = <<>>
                    /\ Implements(ProviderAt(i), args.command)) => calls[i] = 1
              /\ (Succeeded(i) /\ UnsupportedFormat) =>
                    /\ calls[i] = 1
                    /\ HasKind(KeyAt(i), "error")
                    /\ DictGet(EntryOf(KeyAt(i)), "error")
                          = <<"Invalid format", args.format[1]>>
                    /\ (pc = "done") => outcome.kind = "raise"
              /\ (Succeeded(i) /\ ~UnsupportedFormat) =>
                    /\ pc = "done"
                    /\ idx = i
                    /\ calls[i] = 1
                    /\ HasKind(KeyAt(i), "result")
                    /\ outcome =
                         IF IsSet(args.format)
                         THEN Returned("str", <<"formatted", args.format[1],
                                                << <<KeyAt(i), EntryOf(KeyAt(i))>> >> >>)
                         ELSE Returned("result", <<"value of", KeyAt(i)>>)
        /\ (pc = "done" /\ outcome.kind = "return" /\ outcome.type = "result")
              => Succeeded(idx)

\* [A fails, B succeeds, C ready]: B's result is returned and C is untouched
C2_Witness ==
    /\ InTryFirst
    /\ pc = "done"
    /\ Len(providers) = 3
    /\ idx = 2
    /\ HasKind(KeyAt(1), "errors")
    /\ Succeeded(2)
    /\ outcome = Returned("result", <<"value of", KeyAt(2)>>)
    /\ PackagesOk(ProviderAt(3)) /\ ConfigOk(ProviderAt(3))
    /\ MissingServicesOf(ProviderAt(3)) = <<>> /\ Implements(ProviderAt(3), args.command)
    /\ ~Unusable(ProviderAt(3))

\* C3: in try_providers an exception of one provider's method is recorded as
\* that provider's {error: message} entry, does not end the call, leaves the
\* entries recorded before unchanged, and every later provider is still
\* checked and, if ready, called.
C3_StepIsolated ==
    (args.fn = "try_providers" /\ pc = "loop") =>
        /\ Len(results') >= Len(results)
        /\ \A j \in DOMAIN results : results'[j] = results[j]
        /\ (idx' = idx + 1 /\ HasKindIn(results', providers[idx + 1][1], "error"))
              => /\ pc' = "loop"
                 /\ outcome' = NoOutcome
                 /\ DictGet(DictGet(results', providers[idx + 1][1]), "error")
                        = <<"exception of", providers[idx + 1][1]>>

C3_LaterProvidersStillRun ==
    (InTryAll /\ pc = "done") =>
        /\ outcome.kind = "raise" => outcome = Raised("ValueError",
                                                      <<"Invalid format", args.format[1]>>)
        /\ (~IsSet(args.format) \/ SupportedFormat) => outcome.kind = "return"
        /\ \A i, j \in DOMAIN providers :
              (i < j /\ HasKind(KeyAt(i), "error") /\ ~Unusable(ProviderAt(j)))
                  => /\ ~Unchecked(ProviderAt(j))
                     /\ HasEntry(KeyAt(j))
                     /\ (PackagesOk(ProviderAt(j)) /\ ConfigOk(ProviderAt(j))
                           /\ Implements(ProviderAt(j), args.command)) => calls[j] = 1

C3_ExceptionIsolated == [][C3_StepIsolated]_vars /\ []C3_LaterProvidersStillRun

\* the first provider raised, the second was still called and returned
C3_Witness ==
    /\ InTryAll
    /\ pc = "done"
    /\ Len(providers) >= 2
    /\ HasKind(KeyAt(1), "error")
    /\ HasKind(KeyAt(2), "result")
    /\ calls[2] = 1

\* the first part of each reason of an errors list
Categories(errors) == [i \in DOMAIN errors |-> errors[i][1]]

ExpectedCategories(p, command) ==
    (IF PackagesOk(p) THEN <<>> ELSE <<"Packages missing:">>)
    \o (IF ConfigOk(p) THEN <<>> ELSE <<"Config missing:">>)
    \o (IF Implements(p, command) THEN <<>> ELSE <<"Service missing:">>)

\* C4: the errors list try_providers records has one reason per failing
\* category and no other, in the order package, config, service; the
\* package and config reasons list every missing item in declaration order.
C4_AllReasonsInOrder ==
    InTryAll =>
        \A i \in 1..idx :
            HasKind(KeyAt(i), "errors") =>
                LET errors == DictGet(EntryOf(KeyAt(i)), "errors")
                    p == ProviderAt(i)
                IN  /\ Categories(errors) = ExpectedCategories(p, args.command)
                    /\ \A r \in DOMAIN errors :
                          /\ errors[r][1] = "Packages missing:"
                                => errors[r][2] = MissingPackagesOf(p)
                          /\ errors[r][1] = "Config missing:"
                                => errors[r][2] = MissingConfigOf(p)
                          /\ errors[r][1] = "Service missing:"
                                => errors[r][2] = args.command

\* a provider failing all three categories has three reasons
C4_Witness ==
    /\ InTryAll
    /\ \E i \in 1..idx :
          /\ HasKind(KeyAt(i), "errors")
          /\ Categories(DictGet(EntryOf(KeyAt(i)), "errors"))
                = <<"Packages missing:", "Config missing:", "Service missing:">>
          /\ Len(MissingPackagesOf(ProviderAt(i))) = 2

\* the provider fails only because it lacks the requested method
LacksOnlyMethod(p, command) ==
    /\ ~Unusable(p)
    /\ PackagesOk(p)
    /\ ConfigOk(p)
    /\ attr_kind(p, command) = "absent"

\* C5: when every provider of a try_providers call failed only because it
\* lacks the requested method, the call returns the single aggregated
\* "method not found" error, not a mapping with one entry per provider.
C5_AggregatedMethodNotFound ==
    (InTryAll /\ pc = "done"
        /\ \A i \in DOMAIN providers : LacksOnlyMethod(ProviderAt(i), args.command))
    => /\ outcome.kind = "return"
       /\ outcome.type \in {"error_dict", "str"}
       /\ outcome.value[1] # <<>>
       /\ IF IsSet(args.format)
          THEN outcome.value = method_not_found(args.command, DictKeys(providers))
          ELSE outcome.value =
                  << <<"error", method_not_found(args.command, DictKeys(providers))>> >>

\* no provider's invocation succeeded in a finished try_providers_first call
NoSuccess ==
    /\ args.fn = "try_providers_first"
    /\ pc = "done"
    /\ \A i \in DOMAIN providers : ~Succeeded(i)

\* C6 as stated: whenever no invocation succeeds, try_providers_first raises
\* and never returns a value.
C6_AlwaysRaises == NoSuccess => outcome.kind = "raise"

\* C6 amended: when no invocation succeeds and no format is given,
\* try_providers_first raises a RuntimeError; with a supported format it
\* raises only the "method not found" error (no entry recorded, some
\* provider lacking the method) and otherwise returns the rendering of the
\* failure mapping; an unsupported format makes that rendering a ValueError.
C6_RaisesUnlessFormatted ==
    NoSuccess =>
        IF ~IsSet(args.format) \/ providers = <<>>
        THEN outcome.kind = "raise" /\ outcome.type = "RuntimeError"
        ELSE IF results = <<>> /\ providers_without_method # <<>>
        THEN outcome = Raised("RuntimeError",
                              method_not_found(args.command, providers_without_method))
        ELSE IF SupportedFormat
        THEN outcome = Returned("str", <<"formatted", args.format[1], results>>)
        ELSE outcome.kind = "raise" /\ outcome.type = "ValueError"

\* two providers failed, one on readiness and one by raising, and without a
\* format the call raised "failed on all providers"
C6_Witness ==
    /\ NoSuccess
    /\ ~IsSet(args.format)
    /\ \E i, j \in DOMAIN providers :
          HasKind(KeyAt(i), "errors") /\ HasKind(KeyAt(j), "error")
    /\ outcome = Raised("RuntimeError", <<"Command failed on all providers", args.command>>)

\* the provider implements the command but not every service it declares
PartlyImplemented(p, command) ==
    Implements(p, command) /\ MissingServicesOf(p) # <<>>

\* C7: try_providers_first calls a provider's method only if every declared
\* service is implemented; a provider implementing the command but missing
\* another declared service gets an errors entry and no call there, while
\* try_providers calls that same provider.
C7_FullServiceReadiness ==
    /\ InTryFirst =>
          \A i \in DOMAIN providers :
              /\ calls[i] > 0 => MissingServicesOf(ProviderAt(i)) = <<>>
              /\ (i <= idx /\ ~Unusable(ProviderAt(i))
                    /\ PartlyImplemented(ProviderAt(i), args.command))
                    => HasKind(KeyAt(i), "errors") /\ calls[i] = 0
    /\ InTryAll =>
          \A i \in 1..idx :
              (~Unusable(ProviderAt(i)) /\ PartlyImplemented(ProviderAt(i), args.command)
                  /\ PackagesOk(ProviderAt(i)) /\ ConfigOk(ProviderAt(i)))
                  => calls[i] = 1 /\ ~HasKind(KeyAt(i), "errors")

\* try_providers_first rejected a provider that has its packages and config
\* and implements the command, for a missing other service
C7_Witness ==
    /\ InTryFirst
    /\ \E i \in 1..idx :
          /\ PartlyImplemented(ProviderAt(i), args.command)
          /\ PackagesOk(ProviderAt(i)) /\ ConfigOk(ProviderAt(i))
          /\ HasKind(KeyAt(i), "errors")
          /\ Categories(DictGet(EntryOf(KeyAt(i)), "errors")) = <<"Services missing:">>
          /\ calls[i] = 0

\* the collection the invoker is asked to work on is empty: passed in as an
\* empty dict, or loaded and filtered down to nothing
EmptyCollection ==
    /\ args.fn \in {"try_providers", "try_providers_first"}
    /\ IF IsSet(args.providers) THEN args.providers[1] = <<>>
       ELSE get_providers(loader_args(args)) = Ok(<<>>)

\* C8: on an empty collection both invokers raise "No providers available"
\* and no provider is checked or called.
C8_NoProvidersAvailable ==
    (EmptyCollection /\ pc # "idle") =>
        /\ pc = "done"
        /\ outcome = Raised("RuntimeError", <<"No providers available">>)
        /\ providers = <<>>
        /\ calls = <<>>
        /\ results = <<>>

\* a config list that loads a provider which the query string then filters out
C8_Witness ==
    /\ EmptyCollection
    /\ pc = "done"
    /\ ~IsSet(args.providers)
    /\ IsSet(args.config)
    /\ load_providers_from_config(args.config[1]).value # <<>>
    /\ IsSet(args.query_string)
    /\ outcome.kind = "raise"

\* C9: get_providers takes its providers from exactly one source by the
\* precedence config list, JSON file, directory, package directory; with
\* json and dir_path both given (and no config list) they come from the
\* JSON file.
C9_SourcePrecedence ==
    (args.fn = "get_providers" /\ pc = "done" /\ ~IsSet(args.query_string)
        /\ ~IsSet(args.format))
    => IF IsSet(args.config)
       THEN outcome.value = load_providers_from_config(args.config[1]).value
       ELSE IF IsSet(args.json)
       THEN outcome.kind = "return"
            /\ outcome.value = load_providers_from_json(args.json, args.lib_name).value
       ELSE TRUE

\* a configuration file of the library exists in one of the search locations
LibraryFileExists ==
    \E i \in 1..3 : DictHas(fs.files, json_search_paths(args.lib_name)[i])

\* C10: get_providers(lib_name=L) with a configuration file of L in the
\* search locations returns the providers declared in that file, the ones
\* load_providers_from_json(lib_name=L) returns.
C10_LibNameLoadsJson ==
    (args.fn = "get_providers" /\ pc = "done"
        /\ ~IsSet(args.json) /\ ~IsSet(args.config) /\ ~IsSet(args.dir_path)
        /\ ~IsSet(args.query_string) /\ ~IsSet(args.format)
        /\ LibraryFileExists)
    => /\ outcome.kind = "return"
       /\ outcome.value # <<>>
       /\ outcome.value = load_providers_from_json(Absent, args.lib_name).value

----------------------------------------------------------------------------
(* Claims about the loaders, checked under SpecLoaders *)

ConfigLoaded == args.fn = "load_providers_from_config" /\ pc = "done"

\* the provider a record constructs, when its class path names a provider
\* type of an importable module
ConstructionOf(rec) ==
    new_provider(DictGet(DictGet(Modules, SubSeq(rec.class, 1, Len(rec.class) - 1)),
                         rec.class[Len(rec.class)]),
                 rec.config, rec.kwargs)

\* the class path resolves to a provider type
ResolvesToProvider(rec) ==
    /\ Len(rec.class) >= 2
    /\ DictHas(Modules, SubSeq(rec.class, 1, Len(rec.class) - 1))
    /\ DictHas(DictGet(Modules, SubSeq(rec.class, 1, Len(rec.class) - 1)),
               rec.class[Len(rec.class)])
    /\ DictGet(DictGet(Modules, SubSeq(rec.class, 1, Len(rec.class) - 1)),
               rec.class[Len(rec.class)]).kind = "provider"

\* the record names a provider type and constructing it succeeds
ValidRecord(rec) == ResolvesToProvider(rec) /\ ConstructionOf(rec).kind = "ok"

\* C11: load_providers_from_config never raises, whatever records the list
\* holds, and every valid record of the list, before or after a bad one, is
\* registered under its lower-cased name.
C11_ConfigFailIsolated ==
    ConfigLoaded =>
        /\ outcome.kind = "return"
        /\ \A i \in DOMAIN args.config[1] :
              ValidRecord(args.config[1][i])
                  => DictHas(outcome.value,
                             Lower(ConstructionOf(args.config[1][i]).value.name))

\* a loader returned a collection
CollectionLoaded ==
    /\ args.fn \in {"load_providers_from_config", "load_providers_from_json",
                    "autodiscover_providers", "_load_providers_from_dir"}
    /\ pc = "done"
    /\ outcome.kind = "return"

\* the name of what a collection stores: a provider instance, or a provider
\* type in the collection of autodiscover_providers
StoredName(x) == IF args.fn = "autodiscover_providers" THEN x.name[1] ELSE x.name

\* the files of the scanned directory, in scan order
ScannedFiles == DictGet(fs.dirs, args.dir_path[1])

\* the provider types the scan takes from a file
QualifyingTypes(file) ==
    IF \/ file.load # "ok"
       \/ file.stem \in default_exclude_files
       \/ file.stem[1] = "_"
    THEN {}
    ELSE { c \in Range(file.members) :
              /\ c.kind = "provider"
              /\ c.defined_in = file.module_path
              /\ has_provider_in_name(c.class_name)
              /\ IsSet(c.name)
              /\ c.name[1] # <<>> }

\* C12: every collection a loader returns is keyed by the lower-cased name
\* of what is stored under the key and holds one entry per key; of two
\* records, or two discovered types, with the same lower-cased name the one
\* met later is the one stored.
C12_KeyedByLowerName ==
    CollectionLoaded =>
        /\ \A i \in DOMAIN outcome.value :
              outcome.value[i][1] = Lower(StoredName(outcome.value[i][2]))
        /\ \A i, j \in DOMAIN outcome.value :
              outcome.value[i][1] = outcome.value[j][1] => i = j
        /\ args.fn = "load_providers_from_config" =>
              \A i \in DOMAIN args.config[1] :
                 (/\ ValidRecord(args.config[1][i])
                  /\ \A j \in DOMAIN args.config[1] :
                        (j > i /\ ValidRecord(args.config[1][j]))
                           => Lower(ConstructionOf(args.config[1][j]).value.name)
                                 # Lower(ConstructionOf(args.config[1][i]).value.name))
                 => DictGet(outcome.value,
                            Lower(ConstructionOf(args.config[1][i]).value.name))
                       = ConstructionOf(args.config[1][i]).value
        /\ (args.fn \in {"autodiscover_providers", "_load_providers_from_dir"}
              /\ DictHas(fs.dirs, args.dir_path[1])) =>
              \A i \in DOMAIN ScannedFiles : \A c \in QualifyingTypes(ScannedFiles[i]) :
                 (\A j \in DOMAIN ScannedFiles : \A e \in QualifyingTypes(ScannedFiles[j]) :
                     j > i => Lower(e.name[1]) # Lower(c.name[1]))
                 => IF args.fn = "autodiscover_providers"
                    THEN DictGet(outcome.value, Lower(c.name[1])) = c
                    ELSE DictHas(outcome.value, Lower(c.name[1])) =>
                            DictGet(outcome.value, Lower(c.name[1])).instance_class_name
                               = Some(c.class_name)

\* A (name "Ab") then B constructed as "AB": one entry "ab", holding the later
C12_Witness ==
    /\ ConfigLoaded
    /\ args.config[1] = <<ARecord, BAsAbRecord>>
    /\ outcome.kind = "return"
    /\ Len(outcome.value) = 1
    /\ outcome.value[1][1] = <<"a", "b">>
    /\ outcome.value[1][2].name = <<"A", "B">>

JsonLoaded == args.fn = "load_providers_from_json" /\ pc = "done"

\* the three default locations, in probing order
SearchedPaths == <<HiddenJson, VisibleJson, HomeJson>>

\* the path the call has to parse: the explicit one, else the first of the
\* default locations that exists
ParsedPath ==
    IF IsSet(args.json) THEN args.json
    ELSE IF \E i \in DOMAIN SearchedPaths : path_exists(SearchedPaths[i])
    THEN Some(SearchedPaths[CHOOSE i \in DOMAIN SearchedPaths :
                               /\ path_exists(SearchedPaths[i])
                               /\ \A j \in 1..(i - 1) : ~path_exists(SearchedPaths[j])])
    ELSE Absent

NoProviders == Returned("providers", <<>>)

\* C13: load_providers_from_json parses the explicit path, else only the
\* first existing one of .L.json, L.json, ~/.L.json; it returns an empty
\* collection when no candidate exists, when the path cannot be opened, and
\* whenever the content of the file is not a record list.
C13_JsonSearchOrderAndEmptyOnFailure ==
    JsonLoaded =>
        IF ~IsSet(ParsedPath) THEN outcome = NoProviders
        ELSE IF ~DictHas(fs.files, ParsedPath[1]) THEN outcome = NoProviders
        ELSE IF DictGet(fs.files, ParsedPath[1])[1] # "records" THEN outcome = NoProviders
        ELSE outcome = loader_outcome(_load_providers_from_config(DictGet(fs.files, ParsedPath[1])[2]))

\* a directory scan of an existing directory has ended
DirScanned ==
    /\ args.fn \in {"autodiscover_providers", "_load_providers_from_dir"}
    /\ pc = "done"
    /\ DictHas(fs.dirs, args.dir_path[1])

\* calling the type with its discovered path gives an instance
Instantiable(c) ==
    new_provider(c, <<"None">>, << <<"path", PyStr(c.module)>> >>).kind = "ok"

\* C14: a directory scan never raises for a file that fails while being
\* loaded or a type whose instantiation fails; every qualifying type of the
\* other files is discovered, and registered as an instance when it can be
\* instantiated.
C14_ScanFailIsolated ==
    DirScanned =>
        /\ outcome.kind = "return"
        /\ \A i \in DOMAIN ScannedFiles : \A c \in QualifyingTypes(ScannedFiles[i]) :
              (args.fn = "autodiscover_providers" \/ Instantiable(c))
                 => DictHas(outcome.value, Lower(c.name[1]))

\* a directory operation was called on a root that is not a directory
InvalidRootScanned ==
    /\ args.fn \in {"autodiscover_providers", "_load_providers_from_dir"}
    /\ pc = "done"
    /\ ~DictHas(fs.dirs, args.dir_path[1])

\* the error that locates the invalid root
RootError ==
    Raised(IF path_exists(args.dir_path[1]) THEN "NotADirectoryError" ELSE "FileNotFoundError",
           args.dir_path[1])

----------------------------------------------------------------------------
(* One provider and its configuration, driven by a caller *)

\* The caller holds a mapping (args.config) and one provider (providers[1]).
\* args.stored_object tells which dict object self._config refers to: "caller"
\* is the caller's mapping, "argument" the mapping handed to configure, "new" a
\* dict built by the provider's own code. args.dropped is the status the
\* cache held when configure was last called, kept over the reads that follow.
\* args.given holds the arguments of the configure call just made.

TheProvider == providers[1][2]

\* the dict object _filter_config returns: dict(config) and the
\* comprehension both build a new dict, whatever object config is
_filter_config_object(p, config_object) == "new"

\* self._config after configure: replaced by the filtered dict, or updated
\* in place
configured_object(p, stored_object, config_object, replace) ==
    IF replace \/ ~IsSet(p.config) THEN _filter_config_object(p, config_object)
    ELSE stored_object

ConfigKey == <<"k">>

OtherKey == <<"u">>

\* the provider is named "a-b"
config_provider(config_keys, config_prefix, config_defaults) ==
    [provider_class(<<"C", "P", "r", "o", "v", "i", "d", "e", "r">>, <<"m">>,
                    Some(<<"a", "-", "b">>), Some(<<"C">>))
        EXCEPT !.config_keys = config_keys, !.config_prefix = config_prefix,
               !.config_defaults = config_defaults]

\* no declared key; one key; one key and a prefix; two keys, a prefix and a
\* default for the second key
ConfigProviders ==
    { config_provider(<<>>, <<>>, <<>>),
      config_provider(<<ConfigKey>>, <<>>, <<>>),
      config_provider(<<ConfigKey>>, <<"P">>, <<>>),
      config_provider(<<ConfigKey, OtherKey>>, <<"P">>, << <<OtherKey, PyStr(<<"d">>)>> >>) }

\* the values a mapping binds a key to
ConfigValues == { PyStr(<<"x">>), PyNone }

\* the mappings over the two keys, as they list their keys
Mappings ==
    { <<>> }
    \cup { << <<key, v>> >> : key \in {ConfigKey, OtherKey}, v \in ConfigValues }
    \cup { << <<ConfigKey, v>>, <<OtherKey, w>> >> : v \in ConfigValues, w \in ConfigValues }

\* the variables of the fallback chain of ConfigKey for the provider "a-b"
\* with the prefix "P"
PrefixedVar == <<"P", "_", "A", "_", "B", "_", "K">>

NamedVar == <<"A", "_", "B", "_", "K">>

BareVar == <<"K">>

\* the environment of the process: each variable unset or set; a set
\* variable may hold the empty string
Environments ==
    { <<>>,
      << <<PrefixedVar, <<"1">> >> >>,
      << <<NamedVar, <<"2">> >> >>,
      << <<BareVar, <<"3">> >> >>,
      << <<BareVar, <<>> >> >>,
      << <<PrefixedVar, <<"1">> >>, <<BareVar, <<"3">> >> >>,
      << <<NamedVar, <<"2">> >>, <<BareVar, <<"3">> >> >>,
      << <<PrefixedVar, <<"1">> >>, <<NamedVar, <<"2">> >>, <<BareVar, <<"3">> >> >> }

config_args(cls, config) ==
    [fn |-> "none", cls |-> cls, config |-> config, stored_object |-> "none",
     dropped |-> Absent, given |-> Absent, key |-> Absent, default |-> Absent]

\* the other variables are not touched by a provider's configuration
config_frame == UNCHANGED <<installed, environ, fs, idx, providers_without_method, calls>>

\* provider = cls(config=C)
construct ==
    /\ pc = "idle"
    /\ args.fn = "none"
    /\ \E made \in {new_provider(args.cls, <<"dict", args.config>>, <<>>)} :
          providers' = << <<Lower(made.value.name), made.value>> >>
    /\ args' = [args EXCEPT !.fn = "ProviderBase",
                            !.stored_object = _filter_config_object(bare_instance(args.cls), "caller")]
    /\ pc' = "ready"
    /\ results' = <<>>
    /\ outcome' = NoOutcome
    /\ config_frame

\* the caller changes its own mapping; a provider that stored that very
\* object sees the change
caller_changes_mapping ==
    /\ pc = "ready"
    /\ \E changed \in Mappings \ {args.config} :
          /\ args' = [args EXCEPT !.fn = "caller", !.config = changed, !.dropped = Absent,
                                  !.key = Absent, !.default = Absent,
                                  !.given = Absent]
          /\ providers' = IF args.stored_object = "caller"
                          THEN << <<providers[1][1], [TheProvider EXCEPT !.config = Some(changed)]>> >>
                          ELSE providers
    /\ UNCHANGED pc
    /\ results' = <<>>
    /\ outcome' = NoOutcome
    /\ config_frame

\* provider.configure(config, replace=replace)
configure_call ==
    /\ pc = "ready"
    /\ \E config \in Mappings, replace \in BOOLEAN :
          /\ providers' = << <<providers[1][1], configure(TheProvider, config, replace)>> >>
          /\ args' = [args EXCEPT !.fn = "configure",
                                  !.stored_object = configured_object(TheProvider, args.stored_object,
                                                                      "argument", replace),
                                  !.dropped = TheProvider.config_keys_cache,
                                  !.key = Absent, !.default = Absent,
                                  !.given = Some(<<config, replace>>)]
    /\ UNCHANGED pc
    /\ results' = <<>>
    /\ outcome' = NoOutcome
    /\ config_frame

\* provider.check_config_keys()
check_config_keys_call ==
    /\ pc = "ready"
    /\ results' = check_config_keys(TheProvider)
    /\ providers' = << <<providers[1][1], after_check_config_keys(TheProvider)>> >>
    /\ args' = [args EXCEPT !.fn = "check_config_keys", !.key = Absent, !.default = Absent,
                                  !.given = Absent]
    /\ UNCHANGED pc
    /\ outcome' = NoOutcome
    /\ config_frame

\* provider.clear_config_cache()
clear_config_cache_call ==
    /\ pc = "ready"
    /\ providers' = << <<providers[1][1], clear_config_cache(TheProvider)>> >>
    /\ args' = [args EXCEPT !.fn = "clear_config_cache", !.dropped = Absent,
                            !.key = Absent, !.default = Absent,
                                  !.given = Absent]
    /\ UNCHANGED pc
    /\ results' = <<>>
    /\ outcome' = NoOutcome
    /\ config_frame

\* provider._get_config_or_env(key, default)
_get_config_or_env_call ==
    /\ pc = "ready"
    /\ \E key \in {ConfigKey, OtherKey}, default \in {PyNone, PyStr(<<"f">>)} :
          /\ outcome' = Returned("value", _get_config_or_env(TheProvider, key, default))
          /\ args' = [args EXCEPT !.fn = "_get_config_or_env", !.dropped = Absent,
                                  !.key = Some(key), !.default = Some(default),
                                  !.given = Absent]
    /\ UNCHANGED <<pc, providers>>
    /\ results' = <<>>
    /\ config_frame

InitConfig ==
    /\ args \in { config_args(cls, config) : cls \in ConfigProviders, config \in Mappings }
    /\ environ \in Environments
    /\ installed = Installed
    /\ fs = EmptyFs
    /\ providers = <<>>
    /\ pc = "idle"
    /\ idx = 0
    /\ results = <<>>
    /\ providers_without_method = <<>>
    /\ calls = <<>>
    /\ outcome = NoOutcome

NextConfig ==
    \/ construct
    \/ caller_changes_mapping
    \/ configure_call
    \/ check_config_keys_call
    \/ clear_config_cache_call
    \/ _get_config_or_env_call

SpecConfig == InitConfig /\ [][NextConfig]_vars

----------------------------------------------------------------------------
(* Claims about one provider's configuration, checked under SpecConfig *)

\* {k: C[k] for k in K if k in C}, or all of C when K is empty
ExpectedConfig(C, K) ==
    IF K = <<>> THEN C
    ELSE LET kept == SelectSeq(K, LAMBDA k : DictHas(C, k))
         IN  [i \in DOMAIN kept |-> <<kept[i], DictGet(C, kept[i])>>]

\* C16: constructing a provider with the mapping C stores exactly the
\* entries of C under the declared config_keys, or all of C when no key is
\* declared, in a dict of its own: a later change of C by the caller leaves
\* the provider as it was.
C16_StoredConfigIsFilteredCopy ==
    [][/\ (pc = "idle" /\ pc' = "ready") =>
             /\ providers'[1][2].config = Some(ExpectedConfig(args.config, args.cls.config_keys))
             /\ args'.stored_object # "caller"
       /\ (pc = "ready" /\ args'.config # args.config) => providers' = providers]_vars

\* the caller replaced its mapping {k, u} by {u}; the provider, which
\* declares k only, still holds k
C16_Witness ==
    /\ pc = "ready"
    /\ args.fn = "caller"
    /\ args.cls.config_keys = <<ConfigKey>>
    /\ args.config = << <<OtherKey, PyStr(<<"x">>)>> >>
    /\ TheProvider.config = Some(<< <<ConfigKey, PyStr(<<"x">>)>> >>)

\* the variables of the fallback chain of a key, for the provider "a-b"
ChainVars(p, key) ==
    LET K == IF key = ConfigKey THEN "K" ELSE "U"
    IN  (IF p.config_prefix = <<>> THEN {}
         ELSE { p.config_prefix \o <<"_", "A", "_", "B", "_", K>> })
        \cup { <<"A", "_", "B", "_", K>>, <<K>> }

\* the environment sets a variable of the chain
ResolvesInEnvironment(p, key) == \E v \in ChainVars(p, key) : DictHas(environ, v)

\* the status of the declared keys as the provider's stored config, its
\* defaults and the environment give it now
FreshStatus(p) ==
    [i \in DOMAIN p.config_keys |->
        <<p.config_keys[i],
          \/ DictHas(stored_config(p), p.config_keys[i])
          \/ DictHas(p.config_defaults, p.config_keys[i])
          \/ ResolvesInEnvironment(p, p.config_keys[i])>>]

\* C17: with environment and defaults fixed, after any sequence of configure
\* calls and check_config_keys() reads the status a read returns is the status
\* of the provider's current stored config, never one cached before a
\* configure call.
C17_NoStaleStatus ==
    pc = "ready" =>
        /\ check_config_keys(TheProvider) = FreshStatus(TheProvider)
        /\ args.fn = "check_config_keys" => results = FreshStatus(TheProvider)

\* a read after a configure call that dropped a cached status which differs
\* from the one now returned
C17_Witness ==
    /\ pc = "ready"
    /\ args.fn = "check_config_keys"
    /\ IsSet(args.dropped)
    /\ args.dropped[1] # results
    /\ results = FreshStatus(TheProvider)

\* _get_config_or_env(ConfigKey, default) has returned
ConfigKeyResolved ==
    /\ pc = "ready"
    /\ args.fn = "_get_config_or_env"
    /\ args.key = Some(ConfigKey)

\* the value os.getenv gives for a set variable
EnvValue(v) == PyStr(DictGet(environ, v))

\* C19: the value resolved for the key k of the provider "a-b" is the value
\* the instance config holds for it when that is not None; else the value of
\* the first set variable among P_A_B_K (only with the prefix P configured),
\* A_B_K and K; the default is returned only when none of these is set.
C19_ResolutionPrecedence ==
    ConfigKeyResolved =>
        outcome.value =
            IF DictHas(stored_config(TheProvider), ConfigKey)
               /\ DictGet(stored_config(TheProvider), ConfigKey) # PyNone
            THEN DictGet(stored_config(TheProvider), ConfigKey)
            ELSE IF TheProvider.config_prefix = <<"P">> /\ DictHas(environ, PrefixedVar)
            THEN EnvValue(PrefixedVar)
            ELSE IF DictHas(environ, NamedVar) THEN EnvValue(NamedVar)
            ELSE IF DictHas(environ, BareVar) THEN EnvValue(BareVar)
            ELSE args.default[1]

\* k is not in the instance config, P_A_B_K and K are both set: the prefixed
\* variable's value is returned
C19_Witness ==
    /\ ConfigKeyResolved
    /\ ~DictHas(stored_config(TheProvider), ConfigKey)
    /\ TheProvider.config_prefix = <<"P">>
    /\ DictHas(environ, PrefixedVar)
    /\ DictHas(environ, BareVar)
    /\ outcome.value = PyStr(<<"1">>)

\* check_config_keys() has returned
ConfigKeysChecked == pc = "ready" /\ args.fn = "check_config_keys"

\* C20: check_config_keys reports exactly the declared keys, each as present
\* exactly when it is in the instance config, or has a default, or a variable
\* of its fallback chain is set; the value the key is bound to plays no part.
C20_PresenceRule ==
    ConfigKeysChecked =>
        /\ DictKeys(results) = TheProvider.config_keys
        /\ \A key \in Range(TheProvider.config_keys) :
              DictGet(results, key) <=>
                  \/ key \in Range(DictKeys(stored_config(TheProvider)))
                  \/ key \in Range(DictKeys(TheProvider.config_defaults))
                  \/ ResolvesInEnvironment(TheProvider, key)

\* k is bound to None in the instance config, has no default and no variable
\* of its chain is set: it is reported present
C20_Witness ==
    /\ ConfigKeysChecked
    /\ TheProvider.config_keys = <<ConfigKey>>
    /\ environ = <<>>
    /\ stored_config(TheProvider) = << <<ConfigKey, PyNone>> >>
    /\ results = << <<ConfigKey, TRUE>> >>

----------------------------------------------------------------------------
(* One provider and its three readiness caches, in a changing environment *)

CachePackage == <<"p", "-", "b">>

\* requires the package p-b, the config key k and the service cmd
CacheProvider ==
    [provider_class(<<"C", "P", "r", "o", "v", "i", "d", "e", "r">>, <<"m">>,
                    Some(<<"a", "-", "b">>), Some(<<"C">>))
        EXCEPT !.required_packages = <<CachePackage>>,
               !.config_keys = <<ConfigKey>>,
               !.services = <<"cmd">>]

\* what the steps of the caller and of the environment leave alone
cache_frame == UNCHANGED <<pc, fs, idx, providers_without_method, calls>>

called(fn) == args' = [args EXCEPT !.fn = fn, !.dropped = Absent, !.key = Absent, !.default = Absent,
                                  !.given = Absent]

\* provider.check_packages()
check_packages_call ==
    /\ pc = "ready"
    /\ results' = check_packages(TheProvider)
    /\ providers' = << <<providers[1][1], after_check_packages(TheProvider)>> >>
    /\ called("check_packages")
    /\ outcome' = NoOutcome
    /\ UNCHANGED <<installed, environ>>
    /\ cache_frame

\* provider.check_services()
check_services_call ==
    /\ pc = "ready"
    /\ results' = check_services(TheProvider)
    /\ providers' = << <<providers[1][1], after_check_services(TheProvider)>> >>
    /\ called("check_services")
    /\ outcome' = NoOutcome
    /\ UNCHANGED <<installed, environ>>
    /\ cache_frame

\* provider.clear_packages_cache()
clear_packages_cache_call ==
    /\ pc = "ready"
    /\ providers' = << <<providers[1][1], clear_packages_cache(TheProvider)>> >>
    /\ called("clear_packages_cache")
    /\ results' = <<>>
    /\ outcome' = NoOutcome
    /\ UNCHANGED <<installed, environ>>
    /\ cache_frame

\* provider.clear_services_cache()
clear_services_cache_call ==
    /\ pc = "ready"
    /\ providers' = << <<providers[1][1], clear_services_cache(TheProvider)>> >>
    /\ called("clear_services_cache")
    /\ results' = <<>>
    /\ outcome' = NoOutcome
    /\ UNCHANGED <<installed, environ>>
    /\ cache_frame

\* the package p-b is installed (as the module p_b) or removed
package_changes ==
    /\ pc = "ready"
    /\ installed' = IF <<"p", "_", "b">> \in installed
                    THEN installed \ { <<"p", "_", "b">> }
                    ELSE installed \cup { <<"p", "_", "b">> }
    /\ called("environment")
    /\ results' = <<>>
    /\ outcome' = NoOutcome
    /\ UNCHANGED <<providers, environ>>
    /\ cache_frame

\* the variable K is set or unset
variable_changes ==
    /\ pc = "ready"
    /\ environ' = IF DictHas(environ, BareVar) THEN <<>> ELSE << <<BareVar, <<"3">> >> >>
    /\ called("environment")
    /\ results' = <<>>
    /\ outcome' = NoOutcome
    /\ UNCHANGED <<providers, installed>>
    /\ cache_frame

\* the method cmd is set on the instance or deleted from it
method_changes ==
    /\ pc = "ready"
    /\ providers' = << <<providers[1][1],
                         [TheProvider EXCEPT !.attrs = IF DictHas(TheProvider.attrs, "cmd") THEN <<>>
                                                       ELSE << <<"cmd", "method">> >>]>> >>
    /\ called("environment")
    /\ results' = <<>>
    /\ outcome' = NoOutcome
    /\ UNCHANGED <<installed, environ>>
    /\ cache_frame

InitCache ==
    /\ args = config_args(CacheProvider, <<>>)
    /\ environ \in { <<>>, << <<BareVar, <<"3">> >> >> }
    /\ installed \in { {}, { <<"p", "_", "b">> } }
    /\ fs = EmptyFs
    /\ providers = <<>>
    /\ pc = "idle"
    /\ idx = 0
    /\ results = <<>>
    /\ providers_without_method = <<>>
    /\ calls = <<>>
    /\ outcome = NoOutcome

NextCache ==
    \/ construct
    \/ check_packages_call
    \/ check_config_keys_call
    \/ check_services_call
    \/ clear_packages_cache_call
    \/ clear_config_cache_call
    \/ clear_services_cache_call
    \/ package_changes
    \/ variable_changes
    \/ method_changes

SpecCache == InitCache /\ [][NextCache]_vars

----------------------------------------------------------------------------
(* Claim about the readiness caches, checked under SpecCache *)

\* the status of each requirement of CacheProvider as the environment gives
\* it now
PackagesNow ==
    << <<CachePackage, <<"p", "_", "b">> \in installed \/ CachePackage \in installed>> >>

ConfigKeysNow == << <<ConfigKey, DictHas(environ, NamedVar) \/ DictHas(environ, BareVar)>> >>

ServicesNow == << <<"cmd", DictHas(TheProvider.attrs, "cmd")>> >>

\* a step of a check on a cache: a set cache is returned and kept, an empty
\* one is filled with the status of the moment, which is returned
LazyCheck(cache, cache_after, now) ==
    IF IsSet(cache)
    THEN results' = cache[1] /\ cache_after = cache
    ELSE results' = now /\ cache_after = Some(now)

\* a step on one cache, whose check and clear operations are named
CacheStep(check, clear, cache, cache_after, now) ==
    /\ (pc = "idle" /\ pc' = "ready") => cache_after = Absent
    /\ (pc = "ready" /\ args'.fn = check) => LazyCheck(cache, cache_after, now)
    /\ (pc = "ready" /\ args'.fn = clear) => cache_after = Absent
    /\ (pc = "ready" /\ args'.fn \notin {check, clear}) => cache_after = cache

\* C18: each of the three caches is empty after construction, is filled by
\* the first check, is returned unchanged by every later check whatever the
\* environment has become, and is emptied only by its own clear; the check
\* after a clear computes the status from the environment of that moment.
C18_LazyCachesPersist ==
    [][/\ CacheStep("check_packages", "clear_packages_cache",
                    TheProvider.packages_cache, providers'[1][2].packages_cache, PackagesNow)
       /\ CacheStep("check_config_keys", "clear_config_cache",
                    TheProvider.config_keys_cache, providers'[1][2].config_keys_cache, ConfigKeysNow)
       /\ CacheStep("check_services", "clear_services_cache",
                    TheProvider.services_cache, providers'[1][2].services_cache, ServicesNow)]_vars

\* check_packages() returned the status it had stored, which is no longer
\* the status of the environment
C18_Witness ==
    /\ pc = "ready"
    /\ args.fn = "check_packages"
    /\ results = TheProvider.packages_cache[1]
    /\ results # PackagesNow

----------------------------------------------------------------------------
(* Provider instances: a type called directly, and the loaders *)

\* the values name and display_name can be declared with on the type:
\* not declared, empty, non-empty
DeclaredChoices == { Absent, Some(<<>>), Some(<<"n">>) }

IdentityTypes ==
    { provider_class(<<"I", "P", "r", "o", "v", "i", "d", "e", "r">>, <<"m">>, n, dn) :
         n \in DeclaredChoices, dn \in DeclaredChoices }

\* a keyword argument: not given, None, empty, non-empty
KeywordChoices == { Absent, Some(PyNone), Some(PyStr(<<>>)), Some(PyStr(<<"w">>)) }

identity_kwargs(n, dn) ==
    (IF IsSet(n) THEN << <<"name", n[1]>> >> ELSE <<>>)
    \o (IF IsSet(dn) THEN << <<"display_name", dn[1]>> >> ELSE <<>>)

ConstructCalls ==
    { [fn |-> "ProviderBase", cls |-> cls, kwargs |-> identity_kwargs(n, dn)] :
         cls \in IdentityTypes, n \in KeywordChoices, dn \in KeywordChoices }

\* cls(**kwargs)
ProviderBase_call ==
    /\ pc = "idle"
    /\ args.fn = "ProviderBase"
    /\ \E made \in {new_provider(args.cls, <<"None">>, args.kwargs)} :
          finish(IF made.kind = "raise" THEN made ELSE Returned("provider", made.value))
    /\ UNCHANGED <<installed, environ, fs, args>>

InitInstances ==
    /\ \/ args \in ConstructCalls /\ fs = EmptyFs
       \/ args \in ConfigCalls /\ fs = EmptyFs
       \/ args \in JsonCalls /\ fs \in JsonFsChoices
       \/ args \in DirCalls /\ fs \in DirFsChoices
    /\ installed = Installed
    /\ environ = <<>>
    /\ providers = <<>>
    /\ pc = "idle"
    /\ idx = 0
    /\ results = <<>>
    /\ providers_without_method = <<>>
    /\ calls = <<>>
    /\ outcome = NoOutcome

NextInstances ==
    \/ ProviderBase_call
    \/ load_providers_from_config_call
    \/ load_providers_from_json_call
    \/ autodiscover_providers_call
    \/ _load_providers_from_dir_call

SpecInstances == InitInstances /\ [][NextInstances]_vars

----------------------------------------------------------------------------
(* Claims about provider instances, checked under SpecInstances *)

\* a type was called
InstanceRequested == args.fn = "ProviderBase" /\ pc = "done"

\* the keyword argument, else the declaration of the type, is empty
GivenEmpty(field, declared) ==
    IF DictHas(args.kwargs, field)
    THEN DictGet(args.kwargs, field) \in { PyNone, PyStr(<<>>) }
    ELSE declared = Some(<<>>)

\* a loader returned a collection of instances
InstancesLoaded == CollectionLoaded /\ args.fn # "autodiscover_providers"

\* C21: calling a provider type with an empty name or an empty display_name
\* raises; every instance a call returns, and every instance in a collection
\* a loader returns, has a non-empty name and a non-empty display_name.
C21_IdentityNeverEmpty ==
    /\ InstanceRequested =>
          /\ (GivenEmpty("name", args.cls.name) \/ GivenEmpty("display_name", args.cls.display_name))
                => outcome.kind = "raise"
          /\ outcome.kind = "return" =>
                outcome.value.name # <<>> /\ outcome.value.display_name # <<>>
    /\ InstancesLoaded =>
          \A i \in DOMAIN outcome.value :
             outcome.value[i][2].name # <<>> /\ outcome.value[i][2].display_name # <<>>

\* the name given is non-empty, the display_name given is empty: ValueError
C21_Witness ==
    /\ InstanceRequested
    /\ DictHas(args.kwargs, "name")
    /\ DictGet(args.kwargs, "name") = PyStr(<<"w">>)
    /\ DictHas(args.kwargs, "display_name")
    /\ DictGet(args.kwargs, "display_name") = PyStr(<<>>)
    /\ outcome.kind = "raise"
    /\ outcome.type = "ValueError"

\* C22: calling a provider type that gets a non-empty name and no
\* display_name, neither as keyword argument nor declared on the type,
\* returns an instance whose display_name is its name.
C22_DisplayNameDefaultsToName ==
    (/\ InstanceRequested
     /\ ~GivenEmpty("name", args.cls.name)
     /\ (DictHas(args.kwargs, "name") \/ IsSet(args.cls.name))
     /\ ~DictHas(args.kwargs, "display_name")
     /\ ~IsSet(args.cls.display_name))
        => /\ outcome.kind = "return"
           /\ outcome.value.display_name = outcome.value.name

----------------------------------------------------------------------------
(* The two filters called directly *)

\* an instance with the given identity and readiness
filter_instance(name, display_name, description, can_be_used, required_packages) ==
    new_provider(
        [provider_class(<<"F", "P", "r", "o", "v", "i", "d", "e", "r">>, <<"m">>,
                        Some(name), Some(display_name))
            EXCEPT !.description = description,
                   !.provider_can_be_used = can_be_used,
                   !.required_packages = required_packages],
        <<"None">>, <<>>).value

\* "Abk": no description, not marked, packages installed
AbkInstance == filter_instance(<<"a">>, <<"A", "b", "k">>, PyNone, Absent, ReadyPackages)

\* "Tk": description "kab", marked unusable, a package missing
TkInstance ==
    filter_instance(<<"t">>, <<"T", "k">>, PyStr(<<"k", "a", "b">>), Some(FALSE),
                    << <<"p", "c">> >>)

\* "B": empty description, marked usable, no package required
BInstance == filter_instance(<<"b">>, <<"B">>, PyStr(<<>>), Some(TRUE), <<>>)

FilterInstances == { AbkInstance, TkInstance, BInstance }

\* the collections of distinct instances, in every order
FilterCollections ==
    { [i \in DOMAIN l |-> <<l[i].name, l[i]>>] :
         l \in { m \in UNION { [1..n -> FilterInstances] : n \in 0..Cardinality(FilterInstances) } :
                    \A i, j \in DOMAIN m : i # j => m[i] # m[j] } }

\* no query, the empty query, queries in mixed case
FilterQueries ==
    { Absent, Some(<<>>), Some(<<"B", "K">>), Some(<<"a", "B">>), Some(<<"f", "a">>),
      Some(<<"T">>), Some(<<"z">>) }

FilterSearchFields ==
    { Absent, Some(<<"display_name">>), Some(<<"provider_can_be_used", "description">>) }

FilterAdditionalFields == { Absent, Some(<<"provider_can_be_used">>), Some(<<"nothing">>) }

\* the attribute predicates: none, a flag, a text, a method, an attribute no
\* provider has, the attribute path, which is None, and pairs of them
AttributeSearches ==
    { <<>>,
      << <<"provider_can_be_used", <<"t", "r", "u", "e">> >> >>,
      << <<"provider_can_be_used", <<"T", "r", "u", "e">> >> >>,
      << <<"provider_can_be_used", <<"n", "o">> >> >>,
      << <<"display_name", <<"K">> >> >>,
      << <<"description", <<>> >> >>,
      << <<"are_packages_installed", <<"1">> >> >>,
      << <<"are_packages_installed", <<"f", "a", "l", "s", "e">> >> >>,
      << <<"nothing", <<>> >> >>,
      << <<"path", <<>> >> >>,
      << <<"display_name", <<"k">> >>, <<"are_packages_installed", <<"o", "n">> >> >>,
      << <<"are_packages_installed", <<"o", "n">> >>, <<"display_name", <<"b">> >> >> }

filter_args(fn, provs) ==
    [fn |-> fn, providers |-> provs, query_string |-> Absent, search_fields |-> Absent,
     additional_fields |-> Absent, attribute_search |-> <<>>]

FilterCalls ==
    { [filter_args("filter_providers", c)
          EXCEPT !.query_string = q, !.search_fields = sf, !.additional_fields = af] :
         c \in FilterCollections, q \in FilterQueries, sf \in FilterSearchFields,
         af \in FilterAdditionalFields }
    \cup
    { [filter_args("_filter_providers_by_attributes", c) EXCEPT !.attribute_search = a] :
         c \in FilterCollections, a \in AttributeSearches }

\* filter_providers(providers, query_string, search_fields=..., additional_fields=...)
filter_providers_call ==
    /\ pc = "idle"
    /\ args.fn = "filter_providers"
    /\ finish(Returned("providers",
                       filter_providers(args.providers, args.query_string,
                                        args.search_fields, args.additional_fields)))
    /\ UNCHANGED <<installed, environ, fs, args>>

\* _filter_providers_by_attributes(providers, attribute_search)
_filter_providers_by_attributes_call ==
    /\ pc = "idle"
    /\ args.fn = "_filter_providers_by_attributes"
    /\ finish(Returned("providers",
                       _filter_providers_by_attributes(args.providers, args.attribute_search)))
    /\ UNCHANGED <<installed, environ, fs, args>>

InitFilter ==
    /\ args \in FilterCalls
    /\ installed = Installed
    /\ environ = <<>>
    /\ fs = EmptyFs
    /\ providers = <<>>
    /\ pc = "idle"
    /\ idx = 0
    /\ results = <<>>
    /\ providers_without_method = <<>>
    /\ calls = <<>>
    /\ outcome = NoOutcome

NextFilter ==
    \/ filter_providers_call
    \/ _filter_providers_by_attributes_call

SpecFilter == InitFilter /\ [][NextFilter]_vars

----------------------------------------------------------------------------
(* Claims about the filters, checked under SpecFilter *)

QueryFiltered == args.fn = "filter_providers" /\ pc = "done"

\* the fields the query is looked for in
SearchedFields ==
    Range(IF IsSet(args.search_fields) THEN args.search_fields[1]
          ELSE <<"name", "display_name", "description">>)
    \cup Range(IF IsSet(args.additional_fields) THEN args.additional_fields[1] ELSE <<>>)

\* a value that is not None, not the empty string and not False
NonEmpty(v) == v \notin { PyNone, PyStr(<<>>), PyBool(FALSE) }

\* a searched field of p holds a non-empty value whose string form contains
\* the query, letter case set aside
QueryMatches(p) ==
    \E f \in SearchedFields :
        /\ NonEmpty(field_value(p, f))
        /\ Contains(Lower(str_of(field_value(p, f))), Lower(args.query_string[1]))

\* position of a key in the collection handed in
PositionOf(key) == CHOOSE i \in DOMAIN args.providers : args.providers[i][1] = key

\* the returned collection holds entries of the collection handed in, in
\* their order
KeepsOrder ==
    /\ Range(outcome.value) \subseteq Range(args.providers)
    /\ \A i, j \in DOMAIN outcome.value :
          i < j => PositionOf(outcome.value[i][1]) < PositionOf(outcome.value[j][1])

\* C24: with a non-empty query filter_providers returns exactly the
\* providers one of whose searched fields holds a non-empty value containing
\* the query case-insensitively, under their keys and in their order; with
\* no query or the empty query it returns the collection handed in.
C24_QueryFilter ==
    QueryFiltered =>
        IF ~IsSet(args.query_string) \/ args.query_string[1] = <<>>
        THEN outcome.value = args.providers
        ELSE /\ KeepsOrder
             /\ \A i \in DOMAIN args.providers :
                   args.providers[i] \in Range(outcome.value) <=> QueryMatches(args.providers[i][2])

\* the query "aB" over three providers keeps "Abk" (display_name) and "Tk"
\* (description "kab") and drops "B"
C24_Witness ==
    /\ QueryFiltered
    /\ args.query_string = Some(<<"a", "B">>)
    /\ ~IsSet(args.search_fields)
    /\ Len(args.providers) = 3
    /\ DictKeys(outcome.value) \in { << <<"a">>, <<"t">> >>, << <<"t">>, <<"a">> >> }

AttributesFiltered == args.fn = "_filter_providers_by_attributes" /\ pc = "done"

\* the value an attribute name resolves to on a provider handed in, whose
\* caches are empty: a readiness method is called
ResolvedValue(p, attr) ==
    IF attr = "are_packages_installed"
    THEN PyBool(\A i \in DOMAIN p.required_packages : is_package_installed(p.required_packages[i]))
    ELSE field_value(p, attr)

\* str(v), of None too
StringForm(v) == IF IsNone(v) THEN <<"N", "o", "n", "e">> ELSE str_of(v)

\* the rule for a value: a boolean equals whether the expected string is a
\* truthy token, any other value contains the expected string
ValueMatches(v, expected) ==
    IF IsBool(v)
    THEN v[2] = (Lower(expected) \in { <<"t", "r", "u", "e">>, <<"1">>, <<"y", "e", "s">>, <<"o", "n">> })
    ELSE Contains(Lower(StringForm(v)), Lower(expected))

\* the provider has the attribute: path is declared on ProviderBase with the
\* value None, the other attributes exist when they hold a value
AttributeExists(p, attr) == attr = "path" \/ ~IsNone(ResolvedValue(p, attr))

\* the keys of the providers handed in that satisfy Keeps
KeysKept(Keeps(_)) == DictKeys(SelectSeq(args.providers, LAMBDA kv : Keeps(kv[2])))

\* every predicate on an attribute that exists
AllMatchWhereExists(p) ==
    \A i \in DOMAIN args.attribute_search :
        /\ AttributeExists(p, args.attribute_search[i][1])
        /\ ValueMatches(ResolvedValue(p, args.attribute_search[i][1]), args.attribute_search[i][2])

\* every predicate on an attribute whose value is not None
AllMatchWhereNotNone(p) ==
    \A i \in DOMAIN args.attribute_search :
        /\ ~IsNone(ResolvedValue(p, args.attribute_search[i][1]))
        /\ ValueMatches(ResolvedValue(p, args.attribute_search[i][1]), args.attribute_search[i][2])

\* C25 as stated: a provider is kept exactly when for every pair the
\* attribute exists on it and its value, resolved by a call when callable,
\* matches the expected string.
C25_KeptWhenAllExistAndMatch ==
    AttributesFiltered => DictKeys(outcome.value) = KeysKept(AllMatchWhereExists)

\* C25: a provider is kept exactly when for every pair the attribute
\* resolves on it to a value other than None, by a call when callable, and
\* the value matches: a boolean equals whether the lower-cased expected string
\* is one of true/1/yes/on, any other value contains the expected string
\* case-insensitively in its string form.
C25_KeptWhenAllResolveAndMatch ==
    AttributesFiltered => DictKeys(outcome.value) = KeysKept(AllMatchWhereNotNone)

\* two predicates, a text and a method call: of three providers only "Abk"
\* satisfies both
C25_Witness ==
    /\ AttributesFiltered
    /\ Len(args.attribute_search) = 2
    /\ Len(args.providers) = 3
    /\ DictKeys(outcome.value) = << <<"a">> >>

----------------------------------------------------------------------------
(* Further claims about one provider's configuration, under SpecConfig *)

\* the keys of a mapping
KeysOf(d) == Range(DictKeys(d))

\* what a configure(C, replace=False) call makes of the stored mapping old:
\* every key of old is kept, the keys of the declared part of C are bound to
\* the values of C, and nothing else is stored
MergedInto(old, declared_part, new) ==
    /\ KeysOf(new) = KeysOf(old) \cup KeysOf(declared_part)
    /\ \A key \in KeysOf(new) :
          DictGet(new, key) = IF key \in KeysOf(declared_part) THEN DictGet(declared_part, key)
                              ELSE DictGet(old, key)

\* C23: configure(C, replace=True) makes the stored config exactly the
\* declared-key part of C; configure(C, replace=False) keeps every stored
\* key and overrides only the declared keys present in C; with a non-empty
\* config_keys no undeclared key of C is stored in either mode.
C23_ConfigureReplacesOrMerges ==
    [][(pc = "ready" /\ args'.fn = "configure") =>
          /\ IF args'.given[1][2]
             THEN providers'[1][2].config
                     = Some(ExpectedConfig(args'.given[1][1], TheProvider.config_keys))
             ELSE MergedInto(stored_config(TheProvider),
                             ExpectedConfig(args'.given[1][1], TheProvider.config_keys),
                             stored_config(providers'[1][2]))
          /\ TheProvider.config_keys # <<>> =>
                KeysOf(stored_config(providers'[1][2])) \subseteq Range(TheProvider.config_keys)]_vars

\* a merging configure({u: "x"}) on a provider declaring k and u left k, stored
\* before with the value None, in place beside u
C23_Witness ==
    /\ pc = "ready"
    /\ args.fn = "configure"
    /\ args.given = Some(<< << <<OtherKey, PyStr(<<"x">>)>> >>, FALSE >>)
    /\ TheProvider.config_keys = <<ConfigKey, OtherKey>>
    /\ KeysOf(stored_config(TheProvider)) = {ConfigKey, OtherKey}
    /\ DictGet(stored_config(TheProvider), ConfigKey) = PyNone

----------------------------------------------------------------------------
(* One provider under every operation of its mixins *)

\* provider.config[key] = value, or del provider.config[key]: the mapping the
\* config property returns is the stored one
config_changed_directly ==
    /\ pc = "ready"
    /\ \E changed \in Mappings \ {stored_config(TheProvider)} :
          providers' = << <<providers[1][1], [TheProvider EXCEPT !.config = Some(changed)]>> >>
    /\ called("config")
    /\ results' = <<>>
    /\ outcome' = NoOutcome
    /\ UNCHANGED <<installed, environ>>
    /\ cache_frame

NextProvider ==
    \/ construct
    \/ configure_call
    \/ config_changed_directly
    \/ check_packages_call
    \/ check_config_keys_call
    \/ check_services_call
    \/ clear_packages_cache_call
    \/ clear_config_cache_call
    \/ clear_services_cache_call
    \/ package_changes
    \/ variable_changes
    \/ method_changes

SpecProvider == InitCache /\ [][NextProvider]_vars

----------------------------------------------------------------------------
(* Claims about one provider, checked under SpecProvider *)

\* the three caches and the stored config after the step
PackagesCacheAfter == providers'[1][2].packages_cache

ConfigKeysCacheAfter == providers'[1][2].config_keys_cache

ServicesCacheAfter == providers'[1][2].services_cache

StoredConfigAfter == providers'[1][2].config

\* C26: configure and clear_config_cache leave the cached package status and
\* the cached service status as they are; clear_packages_cache and
\* clear_services_cache leave the two other caches and the stored config as
\* they are.
C26_ClearsOnlyItsOwnCache ==
    [][pc = "ready" =>
          /\ args'.fn \in {"configure", "clear_config_cache"} =>
                /\ PackagesCacheAfter = TheProvider.packages_cache
                /\ ServicesCacheAfter = TheProvider.services_cache
          /\ args'.fn = "clear_packages_cache" =>
                /\ ConfigKeysCacheAfter = TheProvider.config_keys_cache
                /\ ServicesCacheAfter = TheProvider.services_cache
                /\ StoredConfigAfter = TheProvider.config
          /\ args'.fn = "clear_services_cache" =>
                /\ PackagesCacheAfter = TheProvider.packages_cache
                /\ ConfigKeysCacheAfter = TheProvider.config_keys_cache
                /\ StoredConfigAfter = TheProvider.config]_vars

\* configure dropped a cached config status and the two other caches are
\* still filled
C26_Witness ==
    /\ pc = "ready"
    /\ args.fn = "configure"
    /\ IsSet(args.dropped)
    /\ ~IsSet(TheProvider.config_keys_cache)
    /\ IsSet(TheProvider.packages_cache)
    /\ IsSet(TheProvider.services_cache)

\* the keys a cached status reports missing, in its order
MissingIn(status) == DictKeys(SelectSeq(status, LAMBDA kv : ~kv[2]))

\* C30: a change made to the stored config through the mapping the config
\* property returns leaves a cached config status in place; while the status
\* is cached check_config_keys() returns it, and is_config_ready() and the
\* invokers' config check go by it, whatever the stored config has become;
\* configure and clear_config_cache empty the cache.
C30_DirectChangeKeepsStatus ==
    [][pc = "ready" =>
          /\ args'.fn = "config" => ConfigKeysCacheAfter = TheProvider.config_keys_cache
          /\ (args'.fn = "check_config_keys" /\ IsSet(TheProvider.config_keys_cache)) =>
                /\ results' = TheProvider.config_keys_cache[1]
                /\ ConfigKeysCacheAfter = TheProvider.config_keys_cache
          /\ IsSet(TheProvider.config_keys_cache) =>
                /\ is_config_ready(TheProvider)
                      <=> MissingIn(TheProvider.config_keys_cache[1]) = <<>>
                /\ config_errors(TheProvider) =
                      IF MissingIn(TheProvider.config_keys_cache[1]) = <<>> THEN <<>>
                      ELSE << <<"Config missing:", MissingIn(TheProvider.config_keys_cache[1])>> >>
          /\ args'.fn \in {"configure", "clear_config_cache"} => ConfigKeysCacheAfter = Absent]_vars

\* check_config_keys() reports k missing although the stored config now
\* holds k
C30_Witness ==
    /\ pc = "ready"
    /\ args.fn = "check_config_keys"
    /\ results = << <<ConfigKey, FALSE>> >>
    /\ DictHas(stored_config(TheProvider), ConfigKey)

----------------------------------------------------------------------------
(* Further claims about the invokers, checked under Spec *)

\* the declared requirements a status reports as false, in declaration order
DeclaredMissing(declared, status) == SelectSeq(declared, LAMBDA r : ~DictGet(status, r))

\* the reasons recorded in the errors entries of the results
RecordedReasons ==
    UNION { Range(DictGet(results[k][2], "errors")) :
               k \in { j \in DOMAIN results : DictHas(results[j][2], "errors") } }

\* C27: for every provider of the collection, in every state, each of the
\* three checkers reports ready exactly when its list of missing items is
\* empty, and that list is the declared requirements whose status is false,
\* in declaration order; no recorded reason is the bare "package_missing" or
\* "config_missing".
C27_ReadyIffNothingMissing ==
    /\ \A i \in DOMAIN providers :
          /\ are_packages_installed(ProviderAt(i)) <=> get_missing_packages(ProviderAt(i)) = <<>>
          /\ is_config_ready(ProviderAt(i)) <=> get_missing_config_keys(ProviderAt(i)) = <<>>
          /\ are_services_implemented(ProviderAt(i)) <=> get_missing_services(ProviderAt(i)) = <<>>
          /\ get_missing_packages(ProviderAt(i))
                = DeclaredMissing(ProviderAt(i).required_packages, check_packages(ProviderAt(i)))
          /\ get_missing_config_keys(ProviderAt(i))
                = DeclaredMissing(ProviderAt(i).config_keys, check_config_keys(ProviderAt(i)))
          /\ get_missing_services(ProviderAt(i))
                = DeclaredMissing(ProviderAt(i).services, check_services(ProviderAt(i)))
    /\ \A reason \in RecordedReasons : reason[1] \notin {"package_missing", "config_missing"}

\* a checked provider lacks two packages and a config key, and both reasons
\* recorded for it list the missing items
C27_Witness ==
    \E i \in DOMAIN providers :
        /\ IsSet(ProviderAt(i).packages_cache)
        /\ Len(get_missing_packages(ProviderAt(i))) = 2
        /\ ~is_config_ready(ProviderAt(i))
        /\ HasKind(KeyAt(i), "errors")
        /\ \E reason \in RecordedReasons : reason[1] = "Packages missing:"
        /\ \E reason \in RecordedReasons : reason[1] = "Config missing:"

\* a finished invoker call over a non-empty collection whose providers are
\* all marked unusable
AllUnusableDone ==
    /\ args.fn \in {"try_providers", "try_providers_first"}
    /\ pc = "done"
    /\ providers # <<>>
    /\ \A i \in DOMAIN providers : Unusable(ProviderAt(i))

\* no provider of the collection was checked or invoked, nothing was recorded
NothingCheckedOrInvoked ==
    /\ \A i \in DOMAIN providers : Unchecked(ProviderAt(i)) /\ calls[i] = 0
    /\ results = <<>>
    /\ providers_without_method = <<>>

FailedOnAll == Raised("RuntimeError", <<"Command failed on all providers", args.command>>)

\* C28 as stated: over a non-empty collection of unusable providers
\* try_providers returns the empty mapping and try_providers_first raises
\* "failed on all providers", whatever the other arguments.
C28_EmptyMappingOrRaise ==
    AllUnusableDone =>
        /\ NothingCheckedOrInvoked
        /\ args.fn = "try_providers" => outcome = Returned("results", <<>>)
        /\ args.fn = "try_providers_first" => outcome = FailedOnAll

\* C28 amended: over a non-empty collection of unusable providers no provider
\* is checked or invoked; with no format try_providers returns the empty
\* mapping and try_providers_first raises "failed on all providers"; with a
\* supported format both return the rendering of the empty mapping, and with
\* an unsupported format both raise a ValueError.
C28_AllUnusable ==
    AllUnusableDone =>
        /\ NothingCheckedOrInvoked
        /\ IF ~IsSet(args.format)
           THEN /\ args.fn = "try_providers" => outcome = Returned("results", <<>>)
                /\ args.fn = "try_providers_first" => outcome = FailedOnAll
           ELSE IF SupportedFormat
           THEN outcome = Returned("str", <<"formatted", args.format[1], <<>> >>)
           ELSE outcome.kind = "raise" /\ outcome.type = "ValueError"

\* two unusable providers, no format: try_providers returned the empty mapping
C28_Witness ==
    /\ AllUnusableDone
    /\ Len(providers) >= 2
    /\ ~IsSet(args.format)
    /\ args.fn = "try_providers"
    /\ outcome = Returned("results", <<>>)

\* the provider passes the three readiness checks of try_providers_first but
\* has no callable attribute named by the command
ReadyButLacksMethod(p, command) ==
    /\ ~Unusable(p)
    /\ PackagesOk(p)
    /\ ConfigOk(p)
    /\ MissingServicesOf(p) = <<>>
    /\ attr_kind(p, command) \notin {"method", "type"}

Listed(seq, key) == \E j \in DOMAIN seq : seq[j] = key

\* such a provider, once iterated, has no entry, was not called, is listed
\* among the providers without the method, and did not end the iteration
C29_NoEntryAndContinue ==
    InTryFirst =>
        \A i \in DOMAIN providers :
            (i <= idx /\ ReadyButLacksMethod(ProviderAt(i), args.command))
            => /\ ~HasEntry(KeyAt(i))
               /\ calls[i] = 0
               /\ Listed(providers_without_method, KeyAt(i))
               /\ pc = "done" => (idx > i \/ i = Len(providers))

IsMethodNotFound(out) ==
    /\ out.kind = "raise"
    /\ out.type = "RuntimeError"
    /\ out.value[1] \in {"Method not found in any provider. Checked providers:",
                         "Method not found in any provider. Checked"}

\* "method not found" is raised only with no entry and some provider listed
C29_MethodNotFoundOnlyWhenNoEntry ==
    (InTryFirst /\ pc = "done" /\ IsMethodNotFound(outcome))
    => /\ results = <<>>
       /\ providers_without_method # <<>>
       /\ outcome = Raised("RuntimeError",
                           method_not_found(args.command, providers_without_method))

\* no invocation succeeded, some provider lacked the method and some other
\* provider recorded an errors or error entry
LackedAndRecorded ==
    /\ NoSuccess
    /\ providers_without_method # <<>>
    /\ results # <<>>

\* C29 as stated: in try_providers_first a ready provider lacking the method
\* gets no entry and iteration continues; "method not found" is raised only
\* when nothing was recorded and some provider lacked the method; once another
\* provider recorded an entry, "failed on all providers" is raised instead.
C29_GenericErrorInstead ==
    /\ C29_NoEntryAndContinue
    /\ C29_MethodNotFoundOnlyWhenNoEntry
    /\ LackedAndRecorded => outcome = FailedOnAll

\* C29 amended: the same, except that once another provider recorded an
\* entry "failed on all providers" is raised when no format is given, while
\* with a supported format the rendering of the recorded entries is returned
\* and with an unsupported format a ValueError is raised.
C29_MethodNotFoundHandling ==
    /\ C29_NoEntryAndContinue
    /\ C29_MethodNotFoundOnlyWhenNoEntry
    /\ LackedAndRecorded =>
          IF ~IsSet(args.format) THEN outcome = FailedOnAll
          ELSE IF SupportedFormat
          THEN outcome = Returned("str", <<"formatted", args.format[1], results>>)
          ELSE outcome.kind = "raise" /\ outcome.type = "ValueError"

\* a ready provider lacking the method was passed over, a later provider
\* recorded an errors entry, and without a format the generic error was raised
C29_Witness ==
    /\ LackedAndRecorded
    /\ ~IsSet(args.format)
    /\ \E i, j \in DOMAIN providers :
          /\ i < j
          /\ ReadyButLacksMethod(ProviderAt(i), args.command)
          /\ ~HasEntry(KeyAt(i))
          /\ HasKind(KeyAt(j), "errors")
    /\ outcome = FailedOnAll

====
